---- MODULE Spec2Model ----
(***************************************************************************)
(* SCRU64 identifiers and their generator (scru64/javascript, v1.0.0).     *)
(*                                                                         *)
(* JavaScript numbers that exceed 31 bits (timestamps, milliseconds,       *)
(* allowances, carries) are written as "wide" naturals: big-endian byte    *)
(* sequences without leading zero bytes, <<>> being 0.  A Scru64Id is its  *)
(* 8-byte array, exactly as in the code.  Small quantities (nodeCtr,       *)
(* nodeId, counterSize, counters) are ordinary integers.                   *)
(***************************************************************************)
EXTENDS Integers, Sequences, FiniteSets, TLC

(***************************************************************************)
(* Wide naturals                                                           *)
(***************************************************************************)

RECURSIVE WNorm(_)
\* strips leading zero bytes
WNorm(w) == IF w = <<>> THEN <<>>
            ELSE IF w[1] = 0 THEN WNorm(Tail(w)) ELSE w

RECURSIVE WFromNat(_)
\* the wide natural of a small natural
WFromNat(n) == IF n = 0 THEN <<>> ELSE Append(WFromNat(n \div 256), n % 256)

RECURSIVE WToNat(_)
\* the small natural of a wide natural of at most 3 bytes
WToNat(w) == IF w = <<>> THEN 0
             ELSE 256 * WToNat(SubSeq(w, 1, Len(w) - 1)) + w[Len(w)]

\* the k-th byte of w counted from the least significant one (k = 0)
WByte(w, k) == IF k < Len(w) THEN w[Len(w) - k] ELSE 0

\* a < b
WLess(a, b) ==
    \/ Len(a) < Len(b)
    \/ /\ Len(a) = Len(b)
       /\ \E i \in 1..Len(a) : /\ a[i] < b[i]
                               /\ \A j \in 1..(i - 1) : a[j] = b[j]

WLeq(a, b) == ~WLess(b, a)

RECURSIVE WAddCarry(_, _, _)
\* a + b + c with c in {0, 1}
WAddCarry(a, b, c) ==
    IF a = <<>> /\ b = <<>> THEN (IF c = 0 THEN <<>> ELSE <<c>>)
    ELSE LET s == WByte(a, 0) + WByte(b, 0) + c
             ra == IF a = <<>> THEN <<>> ELSE SubSeq(a, 1, Len(a) - 1)
             rb == IF b = <<>> THEN <<>> ELSE SubSeq(b, 1, Len(b) - 1)
         IN  Append(WAddCarry(ra, rb, s \div 256), s % 256)

WAdd(a, b) == WNorm(WAddCarry(a, b, 0))

WInc(a) == WAdd(a, <<1>>)

\* buffer * 0x100 + byte
WPush(buffer, byte) == WNorm(Append(buffer, byte))

\* Math.trunc(w / 0x100)
WShr8(w) == IF w = <<>> THEN <<>> ELSE SubSeq(w, 1, Len(w) - 1)

(***************************************************************************)
(* JavaScript numbers given as arguments: a sign and a magnitude.          *)
(***************************************************************************)

Num(neg, mag) == [neg |-> neg, mag |-> mag]

\* NaN, the number that is neither above nor below any other
NaN == [neg |-> FALSE, mag |-> <<>>, nan |-> TRUE]

\* Math.trunc(x / 0x100); the result of a negative x above -256 is -0
TruncDiv256(x) == [neg |-> x.neg, mag |-> WShr8(x.mag)]

\* x < 0 (false of -0)
IsNegative(x) == x.neg /\ x.mag # <<>>

\* x <= 0 (true of -0)
IsNonPositive(x) == x.neg \/ x.mag = <<>>

Pow2(n) == 2 ^ n

\* ToInt32(2 * x) for a 32-bit signed x
Double32(x) ==
    IF x >= Pow2(30) THEN ((x - Pow2(30)) - Pow2(30)) * 2
    ELSE IF x < -Pow2(30) THEN ((x + Pow2(30)) + Pow2(30)) * 2
    ELSE x * 2

RECURSIVE ShiftLeft(_, _)
\* x << n for a 32-bit signed x and 0 <= n < 32: the low 32 bits, signed
ShiftLeft(x, n) ==
    IF n = 0 THEN x
    ELSE IF 0 <= x /\ x < Pow2(31 - n) THEN x * Pow2(n)
    ELSE ShiftLeft(Double32(x), n - 1)

\* x >>> n for a 32-bit signed x and 0 < n < 32: x is read as unsigned
ShiftRight(x, n) ==
    IF x >= 0 THEN x \div Pow2(n)
    ELSE ((x \div Pow2(n)) + Pow2(31 - n)) + Pow2(31 - n)

\* ToInt32(x) for an integer x given as a sign and a magnitude: the low 32
\* bits of the two's complement, signed (what `|` makes of its operand)
ToInt32(x) ==
    LET hi == WByte(x.mag, 3) * 256 + WByte(x.mag, 2)
        lo == WByte(x.mag, 1) * 256 + WByte(x.mag, 0)
    IN  IF ~x.neg
        THEN IF hi < 32768 THEN hi * 65536 + lo
             ELSE (hi - 65535) * 65536 - (65536 - lo)
        ELSE IF hi < 32768 \/ (hi = 32768 /\ lo = 0)
             THEN (-hi) * 65536 - lo
             ELSE (65535 - hi) * 65536 + (65536 - lo)

RECURSIVE BitAnd(_, _)
\* x & y for 32-bit signed x and y (-1 is all ones)
BitAnd(x, y) == IF x = 0 \/ y = 0 THEN 0
                ELSE IF x = -1 THEN y
                ELSE IF y = -1 THEN x
                ELSE (IF x % 2 = 1 /\ y % 2 = 1 THEN 1 ELSE 0)
                     + 2 * BitAnd(x \div 2, y \div 2)

RECURSIVE BitOr(_, _)
\* x | y for 32-bit signed x and y
BitOr(x, y) == IF x = 0 THEN y
               ELSE IF y = 0 THEN x
               ELSE IF x = -1 \/ y = -1 THEN -1
               ELSE (IF x % 2 = 1 \/ y % 2 = 1 THEN 1 ELSE 0)
                    + 2 * BitOr(x \div 2, y \div 2)

(***************************************************************************)
(* Constants of the code                                                   *)
(***************************************************************************)

NODE_CTR_SIZE == 24

\* 282_429_536_480 = 0x41C21CB8E0
MAX_TIMESTAMP == <<65, 194, 28, 184, 224>>

MAX_NODE_CTR == ShiftLeft(1, NODE_CTR_SIZE) - 1

MAX_SCRU64_BYTES == <<65, 194, 28, 184, 224, 255, 255, 255>>

\* 0xff_ffff_ffff, the largest allowance (in 256 ms units) accepted
MAX_ALLOWANCE == <<255, 255, 255, 255, 255>>

\* 10_000 ms, the allowance of generate() and generateOrReset()
DEFAULT_ROLLBACK_ALLOWANCE == Num(FALSE, <<39, 16>>)


(***************************************************************************)
(* Scru64Id: the value is the 8-byte array `bytes`                         *)
(***************************************************************************)

\* what a call hands back: an ID, undefined, or the error it throws
Returned(bytes) == [kind |-> "id", bytes |-> bytes]
Undefined == [kind |-> "undefined", bytes |-> <<>>]
Thrown(errType) == [kind |-> errType, bytes |-> <<>>]
NoResult == [kind |-> "none", bytes |-> <<>>]

RECURSIVE subUintFrom(_, _, _, _)
\* the loop of subUint, buffer = buffer * 0x100 + bytes[beginIndex++]
subUintFrom(bytes, beginIndex, endIndex, buffer) ==
    IF beginIndex < endIndex
    THEN subUintFrom(bytes, beginIndex + 1, endIndex,
                     WPush(buffer, bytes[beginIndex + 1]))
    ELSE buffer

\* subUint(beginIndex, endIndex), indices 0-based as in the code
subUint(bytes, beginIndex, endIndex) ==
    subUintFrom(bytes, beginIndex, endIndex, <<>>)

\* get timestamp()
timestamp(bytes) == subUint(bytes, 0, 5)

\* get nodeCtr()
nodeCtr(bytes) == WToNat(subUint(bytes, 5, 8))

\* the range checks of fromParts (timestamp is wide, hence never negative)
fromPartsThrows(ts, nc) ==
    \/ WLess(MAX_TIMESTAMP, ts)
    \/ nc < 0
    \/ nc > MAX_NODE_CTR

\* the first byte taken by a 32-bit shift, whose count is taken modulo 32
fromPartsBytes_shifted(ts, nc) ==
    << WByte(ts, 0), WByte(ts, 3), WByte(ts, 2), WByte(ts, 1), WByte(ts, 0),
       (nc \div 65536) % 256, (nc \div 256) % 256, nc % 256 >>

\* the byte array fromParts fills; a Uint8Array element keeps the low 8 bits
fromPartsBytes(ts, nc) ==
    << WByte(ts, 4), WByte(ts, 3), WByte(ts, 2), WByte(ts, 1), WByte(ts, 0),
       (nc \div 65536) % 256, (nc \div 256) % 256, nc % 256 >>

\* Scru64Id.fromParts(timestamp, nodeCtr)
fromParts(ts, nc) ==
    IF fromPartsThrows(ts, nc) THEN Thrown("RangeError")
    ELSE Returned(fromPartsBytes(ts, nc))

RECURSIVE compareFrom(_, _, _)
\* the loop of compareTo from index i (1-based)
compareFrom(a, b, i) ==
    IF i > 8 THEN 0
    ELSE IF a[i] # b[i] THEN (IF a[i] > b[i] THEN 1 ELSE -1)
    ELSE compareFrom(a, b, i + 1)

\* the loop started one byte late
compareTo_late(this, other) == compareFrom(this, other, 2)

\* this.compareTo(other)
compareTo(this, other) == compareFrom(this, other, 1)

\* this.equals(other)
equals(this, other) == compareTo(this, other) = 0

\* Math.trunc(w / d) and w - quo * d for a wide w and a small d
RECURSIVE WDivMod(_, _)
WDivMod(w, d) ==
    IF w = <<>> THEN [quo |-> <<>>, rem |-> 0]
    ELSE LET p   == WDivMod(SubSeq(w, 1, Len(w) - 1), d)
             cur == p.rem * 256 + w[Len(w)]
         IN  [quo |-> WNorm(Append(p.quo, cur \div d)), rem |-> cur % d]

\* text is a sequence of one-character strings
DIGITS ==
    << "0", "1", "2", "3", "4", "5", "6", "7", "8", "9", "a", "b",
       "c", "d", "e", "f", "g", "h", "i", "j", "k", "l", "m", "n",
       "o", "p", "q", "r", "s", "t", "u", "v", "w", "x", "y", "z" >>

RECURSIVE toStringWord(_, _, _, _)
\* the inner loop of toString from place j (0-based, at most 11) down: dst
\* and the j it stops at.  The loop goes on while carry > 0 || j > minIndex,
\* below place 0 as well: there dst[j] is undefined, so carry turns NaN, the
\* store into dst[j] is dropped, and since NaN > 0 is false the turns that
\* follow are those j > minIndex alone allows.
toStringWord(dst, carry, j, minIndex) ==
    IF carry # <<>> \/ j > minIndex
    THEN IF j >= 0
         THEN LET sum == WAdd(carry, WNorm(<<dst[j + 1], 0, 0, 0, 0, 0>>))
                  qr  == WDivMod(sum, 36)
              IN  toStringWord([dst EXCEPT ![j + 1] = qr.rem], qr.quo,
                               j - 1, minIndex)
         ELSE [dst |-> dst,
               j   |-> IF j - 1 > minIndex THEN minIndex ELSE j - 1]
    ELSE [dst |-> dst, j |-> j]

\* the second word written without regard to the places the first filled
toString_apart(bytes) ==
    LET first  == toStringWord(<<0, 0, 0, 0, 0, 0, 0, 0, 0, 0, 0, 0>>,
                               subUint(bytes, 0, 3), 11, 99)
        second == toStringWord(<<0, 0, 0, 0, 0, 0, 0, 0, 0, 0, 0, 0>>,
                               subUint(bytes, 3, 8), 11, 99)
    IN  [k \in 1..12 |-> DIGITS[second.dst[k] + 1]]

\* toString(): Base36 by 40-bit words, bytes 0..2 and then bytes 3..7
toString(bytes) ==
    LET first  == toStringWord(<<0, 0, 0, 0, 0, 0, 0, 0, 0, 0, 0, 0>>,
                               subUint(bytes, 0, 3), 11, 99)
        second == toStringWord(first.dst, subUint(bytes, 3, 8), 11, first.j)
    IN  [k \in 1..12 |-> DIGITS[second.dst[k] + 1]]

\* the two digits of each byte the other way round
toHex_swapped(bytes) ==
    <<"0", "x">> \o
    [k \in 1..16 |->
        IF k % 2 = 1 THEN DIGITS[(bytes[(k + 1) \div 2] % 16) + 1]
        ELSE DIGITS[(bytes[k \div 2] \div 16) + 1]]

\* toHex(): "0x", then for each byte digits.charAt(e >>> 4) and
\* digits.charAt(e & 0xf), the digits being the first 16 of DIGITS
toHex(bytes) ==
    <<"0", "x">> \o
    [k \in 1..16 |->
        IF k % 2 = 1 THEN DIGITS[(bytes[(k + 1) \div 2] \div 16) + 1]
        ELSE DIGITS[(bytes[k \div 2] % 16) + 1]]

\* toJSON()
toJSON(bytes) == toString(bytes)

RECURSIVE toStringWordCarries(_, _, _, _)
\* the numbers carry takes in the inner loop of toString from place j down:
\* after carry += dst[j] * 0x100_0000_0000, and after carry = quo.  In a
\* turn below place 0 both are NaN, and carry stays NaN from there on.
toStringWordCarries(dst, carry, j, minIndex) ==
    IF carry # <<>> \/ j > minIndex
    THEN IF j >= 0
         THEN LET sum == WAdd(carry, WNorm(<<dst[j + 1], 0, 0, 0, 0, 0>>))
                  qr  == WDivMod(sum, 36)
              IN  {Num(FALSE, sum), Num(FALSE, qr.quo)} \cup
                  toStringWordCarries([dst EXCEPT ![j + 1] = qr.rem],
                                      qr.quo, j - 1, minIndex)
         ELSE {NaN}
    ELSE {}

\* Base36 by one 64-bit word
toStringCarries_whole(bytes) ==
    {Num(FALSE, subUint(bytes, 0, 8))} \cup
    toStringWordCarries(<<0, 0, 0, 0, 0, 0, 0, 0, 0, 0, 0, 0>>,
                        subUint(bytes, 0, 8), 11, 99)

\* every number carry takes in toString(), the two words included
toStringCarries(bytes) ==
    LET first == toStringWord(<<0, 0, 0, 0, 0, 0, 0, 0, 0, 0, 0, 0>>,
                              subUint(bytes, 0, 3), 11, 99)
    IN  {Num(FALSE, subUint(bytes, 0, 3)),
         Num(FALSE, subUint(bytes, 3, 8))} \cup
        toStringWordCarries(<<0, 0, 0, 0, 0, 0, 0, 0, 0, 0, 0, 0>>,
                            subUint(bytes, 0, 3), 11, 99) \cup
        toStringWordCarries(first.dst, subUint(bytes, 3, 8), 11, first.j)

UPPER ==
    << "A", "B", "C", "D", "E", "F", "G", "H", "I", "J", "K", "L", "M",
       "N", "O", "P", "Q", "R", "S", "T", "U", "V", "W", "X", "Y", "Z" >>

\* a map that knows the lower-case letters only
DECODE_MAP_lower(ch) ==
    IF \E i \in 1..36 : DIGITS[i] = ch
    THEN (CHOOSE i \in 1..36 : DIGITS[i] = ch) - 1
    ELSE 127

\* DECODE_MAP[value.charCodeAt(i)] ?? 0x7f for the character ch
DECODE_MAP(ch) ==
    IF \E i \in 1..36 : DIGITS[i] = ch
    THEN (CHOOSE i \in 1..36 : DIGITS[i] = ch) - 1
    ELSE IF \E i \in 1..26 : UPPER[i] = ch
    THEN (CHOOSE i \in 1..26 : UPPER[i] = ch) + 9
    ELSE 127

RECURSIVE WMulCarry(_, _, _)
\* w * m + c for a wide w and small m and c
WMulCarry(w, m, c) ==
    IF w = <<>> THEN WFromNat(c)
    ELSE LET s == w[Len(w)] * m + c
         IN  Append(WMulCarry(SubSeq(w, 1, Len(w) - 1), m, s \div 256), s % 256)

WMulSmall(w, m) == WNorm(WMulCarry(w, m, 0))

\* 2821109907456 = 36 ** 8
POW36_8 == <<2, 144, 215, 65, 0, 0>>

RECURSIVE digitWord(_, _, _, _)
\* the first inner loop of fromDigitValues over src[j] .. src[end - 1]
\* (0-based): carry = carry * 36 + e
digitWord(src, j, end, carry) ==
    IF j < end
    THEN digitWord(src, j + 1, end, WMulCarry(carry, 36, src[j + 1]))
    ELSE WNorm(carry)

RECURSIVE storeWord(_, _, _, _)
\* the second inner loop of fromDigitValues from place j (0-based) down:
\* carry += dst[j] * 36 ** 8; dst[j] = carry & 0xff; carry = quo
storeWord(dst, carry, j, minIndex) ==
    IF j >= 0 /\ (carry # <<>> \/ j > minIndex)
    THEN LET sum == WAdd(carry, WMulSmall(POW36_8, dst[j + 1]))
         IN  storeWord([dst EXCEPT ![j + 1] = WByte(sum, 0)], WShr8(sum),
                       j - 1, minIndex)
    ELSE [dst |-> dst, j |-> j]

\* fromDigitValues(src): Base36 by 8-digit words, digits 0..3 and then 4..11
fromDigitValues(src) ==
    IF Len(src) # 12 \/ \E i \in 1..12 : src[i] > 35
    THEN Thrown("SyntaxError")
    ELSE LET first  == storeWord(<<0, 0, 0, 0, 0, 0, 0, 0>>,
                                 digitWord(src, 0, 4, <<>>), 7, 99)
             second == storeWord(first.dst, digitWord(src, 4, 12, <<>>), 7,
                                 first.j)
         IN  Returned(second.dst)

RECURSIVE digitWordCarries(_, _, _, _)
\* the values carry takes in the first inner loop of fromDigitValues
digitWordCarries(src, j, end, carry) ==
    IF j < end
    THEN {WNorm(WMulCarry(carry, 36, src[j + 1]))} \cup
         digitWordCarries(src, j + 1, end, WMulCarry(carry, 36, src[j + 1]))
    ELSE {}

RECURSIVE storeWordCarries(_, _, _, _)
\* the values carry takes in the second inner loop of fromDigitValues:
\* after carry += dst[j] * 2821109907456, and after carry = quo
storeWordCarries(dst, carry, j, minIndex) ==
    IF j >= 0 /\ (carry # <<>> \/ j > minIndex)
    THEN LET sum == WAdd(carry, WMulSmall(POW36_8, dst[j + 1]))
         IN  {sum, WShr8(sum)} \cup
             storeWordCarries([dst EXCEPT ![j + 1] = WByte(sum, 0)],
                              WShr8(sum), j - 1, minIndex)
    ELSE {}

\* every value carry takes in fromDigitValues(src) for 12 valid digits
fromDigitValuesCarries(src) ==
    LET first == storeWord(<<0, 0, 0, 0, 0, 0, 0, 0>>,
                           digitWord(src, 0, 4, <<>>), 7, 99)
    IN  digitWordCarries(src, 0, 4, <<>>) \cup
        digitWordCarries(src, 4, 12, <<>>) \cup
        storeWordCarries(<<0, 0, 0, 0, 0, 0, 0, 0>>,
                         digitWord(src, 0, 4, <<>>), 7, 99) \cup
        storeWordCarries(first.dst, digitWord(src, 4, 12, <<>>), 7, first.j)

\* characters after the twelfth ignored
fromString_prefix(value) ==
    IF Len(value) < 12 THEN Thrown("SyntaxError")
    ELSE fromDigitValues([i \in 1..12 |-> DECODE_MAP(value[i])])

\* Scru64Id.fromString(value)
fromString(value) ==
    IF Len(value) # 12 THEN Thrown("SyntaxError")
    ELSE fromDigitValues([i \in 1..12 |-> DECODE_MAP(value[i])])

(***************************************************************************)
(* Scru64Id methods under arguments of every kind.  A JavaScript number is *)
(* Num(neg, mag), with the field `fraction` when it lies half-way between  *)
(* mag and mag + 1 (in magnitude), or NaN; a bigint is Num(neg, mag) with  *)
(* mag of any length.                                                      *)
(***************************************************************************)

\* a number with a fractional part: mag + 0.5, or -(mag + 0.5)
Fraction(neg, mag) == [neg |-> neg, mag |-> mag, fraction |-> TRUE]

\* Number.isInteger(x)
NumberIsInteger(x) == "nan" \notin DOMAIN x /\ "fraction" \notin DOMAIN x

\* x < 0 (false of -0 and of NaN)
LessThanZero(x) ==
    /\ "nan" \notin DOMAIN x
    /\ x.neg
    /\ x.mag # <<>> \/ "fraction" \in DOMAIN x

\* x > max for a wide natural max (false of NaN)
GreaterThan(x, max) ==
    /\ "nan" \notin DOMAIN x
    /\ ~x.neg
    /\ WLess(max, x.mag) \/ (x.mag = max /\ "fraction" \in DOMAIN x)

\* only the nodeCtr checked for being an integer
Scru64Id_fromParts_lax(ts, nc) ==
    IF LessThanZero(ts) \/ GreaterThan(ts, MAX_TIMESTAMP)
       \/ "nan" \in DOMAIN ts
    THEN Thrown("RangeError")
    ELSE IF \/ LessThanZero(nc)
            \/ GreaterThan(nc, WFromNat(MAX_NODE_CTR))
            \/ ~NumberIsInteger(nc)
    THEN Thrown("RangeError")
    ELSE Returned(fromPartsBytes(ts.mag, WToNat(nc.mag)))

\* Scru64Id.fromParts(timestamp, nodeCtr) for numbers of every kind
Scru64Id_fromParts(ts, nc) ==
    IF \/ LessThanZero(ts)
       \/ GreaterThan(ts, MAX_TIMESTAMP)
       \/ ~NumberIsInteger(ts)
    THEN Thrown("RangeError")
    ELSE IF \/ LessThanZero(nc)
            \/ GreaterThan(nc, WFromNat(MAX_NODE_CTR))
            \/ ~NumberIsInteger(nc)
    THEN Thrown("RangeError")
    ELSE Returned(fromPartsBytes(ts.mag, WToNat(nc.mag)))

RECURSIVE exceedsFrom(_, _)
\* the loop of ofInner from index i (0-based): whether it throws
exceedsFrom(bytes, i) ==
    IF i >= 8 THEN FALSE
    ELSE IF bytes[i + 1] > MAX_SCRU64_BYTES[i + 1] THEN TRUE
    ELSE IF bytes[i + 1] < MAX_SCRU64_BYTES[i + 1] THEN FALSE
    ELSE exceedsFrom(bytes, i + 1)

\* every byte held against the byte of the maximum
ofInner_bytewise(bytes) ==
    IF Len(bytes) # 8 THEN Thrown("RangeError")
    ELSE IF \E i \in 1..8 : bytes[i] > MAX_SCRU64_BYTES[i]
    THEN Thrown("RangeError")
    ELSE Returned(bytes)

\* the length checked and nothing else
ofInner_unchecked(bytes) ==
    IF Len(bytes) # 8 THEN Thrown("RangeError") ELSE Returned(bytes)

\* Scru64Id.ofInner(bytes)
ofInner(bytes) ==
    IF Len(bytes) # 8 THEN Thrown("RangeError")
    ELSE IF exceedsFrom(bytes, 0) THEN Thrown("RangeError")
    ELSE Returned(bytes)

\* the low 64 bits taken
fromBigInt_wrapping(value) ==
    IF value.neg /\ value.mag # <<>> THEN Thrown("RangeError")
    ELSE IF exceedsFrom([i \in 1..8 |-> WByte(value.mag, 8 - i)], 0)
    THEN Thrown("RangeError")
    ELSE Returned([i \in 1..8 |-> WByte(value.mag, 8 - i)])

\* Scru64Id.fromBigInt(value)
fromBigInt(value) ==
    IF (value.neg /\ value.mag # <<>>) \/ Len(WNorm(value.mag)) > 8
    THEN Thrown("RangeError")
    ELSE ofInner([i \in 1..8 |-> WByte(value.mag, 8 - i)])

\* toBigInt()
toBigInt(bytes) == Num(FALSE, WNorm(bytes))

RECURSIVE Decimal(_)
\* `${n}` for a non-negative integer n
Decimal(n) == IF n < 10 THEN <<DIGITS[n + 1]>>
              ELSE Append(Decimal(n \div 10), DIGITS[(n % 10) + 1])

\* a string handed back
Text(text) == [kind |-> "string", text |-> text]

(***************************************************************************)
(* CounterMode.  A mode is modelled by the set of values its renew() may   *)
(* return.  DefaultCounterMode draws Math.trunc(Math.random() * (1 << k)), *)
(* Math.random() being any number of [0, 1): any integer of [0, 2^k);      *)
(* "ConformingCounterMode" stands for any caller-supplied mode that keeps  *)
(* the documented contract (a counterSize-bit unsigned integer), and       *)
(* "ContractBreakingCounterMode" for one that returns integers outside of  *)
(* it.  The values are JavaScript numbers: a sign and a magnitude.         *)
(***************************************************************************)

DefaultCounterMode(overflowGuardSize) ==
    [type |-> "DefaultCounterMode", overflowGuardSize |-> overflowGuardSize]

ConformingCounterMode ==
    [type |-> "ConformingCounterMode", overflowGuardSize |-> 0]

ContractBreakingCounterMode ==
    [type |-> "ContractBreakingCounterMode", overflowGuardSize |-> 0]

\* the counterMode argument left out
NoCounterMode == [type |-> "undefined", overflowGuardSize |-> 0]

Max(a, b) == IF a >= b THEN a ELSE b

\* integers outside of [0, 2^counterSize): the smallest one too large, -1,
\* and -2^32 - 1 and -2^32, which are -1 and 0 modulo 2^32
OutOfRangeCounters(counterSize) ==
    { Num(FALSE, WFromNat(ShiftLeft(1, counterSize))), Num(TRUE, <<1>>),
      Num(TRUE, <<1, 0, 0, 0, 1>>), Num(TRUE, <<1, 0, 0, 0, 0>>) }

\* the guard ignored: Math.trunc(Math.random() * (1 << counterSize))
renew_unguarded(counterMode, counterSize) ==
    { Num(FALSE, WFromNat(c)) : c \in 0..(ShiftLeft(1, counterSize) - 1) }

\* the values counterMode.renew(counterSize, context) may return
renew(counterMode, counterSize) ==
    IF counterMode.type = "DefaultCounterMode"
    THEN LET k == Max(0, counterSize - counterMode.overflowGuardSize)
         IN  { Num(FALSE, WFromNat(c)) : c \in 0..(ShiftLeft(1, k) - 1) }
    ELSE IF counterMode.type = "ContractBreakingCounterMode"
    THEN OutOfRangeCounters(counterSize)
    ELSE { Num(FALSE, WFromNat(c)) : c \in 0..(ShiftLeft(1, counterSize) - 1) }

(***************************************************************************)
(* Scru64Generator.  The object state is the record                        *)
(*   [prevTimestamp, prevNodeCtr, counterSize, counterMode].               *)
(***************************************************************************)

\* A nodeSpec argument is a string, Text(text), or an object: a record with
\* the fields nodeIdSize and nodePrev (the bytes of a Scru64Id) or nodeId.
\* A number with a fractional part is written as its floor, the field being
\* named in the set `fraction` of the record.

\* typeof nodeSpec === "string"
IsString(nodeSpec) == "text" \in DOMAIN nodeSpec

\* Number.isInteger(nodeSpec[field])
IsInteger(nodeSpec, field) ==
    ~("fraction" \in DOMAIN nodeSpec /\ field \in nodeSpec.fraction)

\* the character classes of the pattern, under its flag i
IsDecimalDigit(ch) == DECODE_MAP(ch) < 10
IsHexDigit(ch) == DECODE_MAP(ch) < 16
IsBase36Digit(ch) == DECODE_MAP(ch) < 36

\* [0-9a-z]{12}
MatchesNodePrev(text) ==
    Len(text) = 12 /\ \A i \in 1..12 : IsBase36Digit(text[i])

\* [0-9]{1,8}|0x[0-9a-f]{1,6}
MatchesNodeId(text) ==
    \/ Len(text) \in 1..8 /\ \A i \in 1..Len(text) : IsDecimalDigit(text[i])
    \/ /\ Len(text) \in 3..8
       /\ text[1] = "0"
       /\ text[2] \in {"x", "X"}
       /\ \A i \in 3..Len(text) : IsHexDigit(text[i])

\* four digits let through
MatchesNodeIdSize_long(text) ==
    Len(text) \in 1..4 /\ \A i \in 1..Len(text) : IsDecimalDigit(text[i])

\* [0-9]{1,3}
MatchesNodeIdSize(text) ==
    Len(text) \in 1..3 /\ \A i \in 1..Len(text) : IsDecimalDigit(text[i])

\* the positions of the "/" at which
\* /^(?:([0-9a-z]{12})|([0-9]{1,8}|0x[0-9a-f]{1,6}))\/([0-9]{1,3})$/i
\* matches the whole text; none when match() returns null
matchAt(text) ==
    { k \in 1..Len(text) :
        /\ text[k] = "/"
        /\ MatchesNodeIdSize(SubSeq(text, k + 1, Len(text)))
        /\ \/ MatchesNodePrev(SubSeq(text, 1, k - 1))
           \/ MatchesNodeId(SubSeq(text, 1, k - 1)) }

RECURSIVE parseDigits(_, _)
\* the digits of text read in the radix
parseDigits(text, radix) ==
    IF text = <<>> THEN 0
    ELSE radix * parseDigits(SubSeq(text, 1, Len(text) - 1), radix)
         + DECODE_MAP(text[Len(text)])

\* parseInt(text, radix) of a text the pattern matched; radix 0 stands for
\* the argument left out, where a leading 0x or 0X selects radix 16
parseInt(text, radix) ==
    IF radix = 0 /\ Len(text) >= 2 /\ text[1] = "0" /\ text[2] \in {"x", "X"}
    THEN parseDigits(SubSeq(text, 3, Len(text)), 16)
    ELSE parseDigits(text, 10)

\* the object a matching string is turned into
parseNodeSpec(text) ==
    LET k  == CHOOSE k \in matchAt(text) : TRUE
        m  == SubSeq(text, 1, k - 1)
        m3 == SubSeq(text, k + 1, Len(text))
    IN  IF MatchesNodePrev(m)
        THEN [nodePrev |-> fromString(m).bytes, nodeIdSize |-> parseInt(m3, 10)]
        ELSE [nodeId |-> parseInt(m, 0), nodeIdSize |-> parseInt(m3, 10)]

\* the object the checks are made on
objectOf(nodeSpec) ==
    IF IsString(nodeSpec) THEN parseNodeSpec(nodeSpec.text) ELSE nodeSpec

\* nodeIdSize 24 let through
objectThrows_inclusive(nodeSpec) ==
    \/ nodeSpec.nodeIdSize < 1
    \/ nodeSpec.nodeIdSize > NODE_CTR_SIZE
    \/ ~IsInteger(nodeSpec, "nodeIdSize")
    \/ /\ "nodePrev" \notin DOMAIN nodeSpec
       /\ \/ "nodeId" \notin DOMAIN nodeSpec
          \/ nodeSpec.nodeId < 0
          \/ nodeSpec.nodeId >= ShiftLeft(1, nodeSpec.nodeIdSize)
          \/ ~IsInteger(nodeSpec, "nodeId")

\* the checks of the object: whether one of them throws errType
objectThrows(nodeSpec) ==
    \/ nodeSpec.nodeIdSize < 1
    \/ nodeSpec.nodeIdSize >= NODE_CTR_SIZE
    \/ ~IsInteger(nodeSpec, "nodeIdSize")
    \/ /\ "nodePrev" \notin DOMAIN nodeSpec
       /\ \/ "nodeId" \notin DOMAIN nodeSpec
          \/ nodeSpec.nodeId < 0
          \/ nodeSpec.nodeId >= ShiftLeft(1, nodeSpec.nodeIdSize)
          \/ ~IsInteger(nodeSpec, "nodeId")

\* a RangeError for a matching string whose numbers are out of range
constructorError_ranged(nodeSpec) ==
    IF IsString(nodeSpec) /\ matchAt(nodeSpec.text) = {} THEN "SyntaxError"
    ELSE IF objectThrows(objectOf(nodeSpec)) THEN "RangeError"
    ELSE "none"

\* new Scru64Generator(nodeSpec, counterMode): the error thrown, or "none"
constructorError(nodeSpec) ==
    LET errType == IF IsString(nodeSpec) THEN "SyntaxError" ELSE "RangeError"
    IN  IF IsString(nodeSpec) /\ matchAt(nodeSpec.text) = {} THEN errType
        ELSE IF objectThrows(objectOf(nodeSpec)) THEN errType
        ELSE "none"

\* new Scru64Generator(nodeSpec, counterMode): whether the constructor throws
constructorThrows(nodeSpec) == constructorError(nodeSpec) # "none"

\* the timestamp of nodePrev dropped
constructor_fresh(nodeSpec, counterMode) ==
    LET spec == objectOf(nodeSpec)
        counterSize == NODE_CTR_SIZE - spec.nodeIdSize
        mode == IF counterMode = NoCounterMode
                THEN DefaultCounterMode(IF counterSize <= 4 THEN 1 ELSE 0)
                ELSE counterMode
    IN  [prevTimestamp |-> <<>>,
         prevNodeCtr   |-> IF "nodePrev" \in DOMAIN spec
                           THEN nodeCtr(spec.nodePrev)
                           ELSE ShiftLeft(spec.nodeId, counterSize),
         counterSize   |-> counterSize,
         counterMode   |-> mode]

\* new Scru64Generator(nodeSpec, counterMode): the object built
constructor(nodeSpec, counterMode) ==
    LET spec == objectOf(nodeSpec)
        counterSize == NODE_CTR_SIZE - spec.nodeIdSize
        mode == IF counterMode = NoCounterMode
                THEN DefaultCounterMode(IF counterSize <= 4 THEN 1 ELSE 0)
                ELSE counterMode
    IN  IF "nodePrev" \in DOMAIN spec
        THEN [prevTimestamp |-> timestamp(spec.nodePrev),
              prevNodeCtr   |-> nodeCtr(spec.nodePrev),
              counterSize   |-> counterSize,
              counterMode   |-> mode]
        ELSE [prevTimestamp |-> <<>>,
              prevNodeCtr   |-> ShiftLeft(spec.nodeId, counterSize),
              counterSize   |-> counterSize,
              counterMode   |-> mode]

\* getNodeId()
getNodeId(this) == ShiftRight(this.prevNodeCtr, this.counterSize)

\* getNodeIdSize()
getNodeIdSize(this) == NODE_CTR_SIZE - this.counterSize

\* the counter bits dropped
getNodePrev_counterless(this) ==
    IF this.prevTimestamp # <<>>
    THEN fromParts(this.prevTimestamp,
                   ShiftLeft(ShiftRight(this.prevNodeCtr, this.counterSize),
                             this.counterSize))
    ELSE Undefined

\* getNodePrev(): an ID, undefined, or the RangeError of fromParts
getNodePrev(this) ==
    IF this.prevTimestamp # <<>>
    THEN fromParts(this.prevTimestamp, this.prevNodeCtr)
    ELSE Undefined

\* the node ID rendered whatever the stored timestamp
getNodeSpec_decimal(this) ==
    Text(Decimal(getNodeId(this)) \o <<"/">> \o Decimal(getNodeIdSize(this)))

\* getNodeSpec(): the string, or the RangeError of getNodePrev()
getNodeSpec(this) ==
    LET nodePrev == getNodePrev(this)
        size     == Decimal(getNodeIdSize(this))
    IN  IF nodePrev.kind = "RangeError" THEN nodePrev
        ELSE IF nodePrev # Undefined
        THEN Text(toString(nodePrev.bytes) \o <<"/">> \o size)
        ELSE Text(Decimal(getNodeId(this)) \o <<"/">> \o size)

\* what a generation method does: the object afterwards, what it hands back,
\* and whether the reset branch of generateOrResetCore ran
Outcome(this, result, reset) == [gen |-> this, result |-> result, reset |-> reset]

\* the nodeId left out of the nodeCtr
renewNodeCtr_nodeless(this) ==
    { [threw |-> FALSE, nodeCtr |-> ToInt32(counter)] :
        counter \in renew(this.counterMode, this.counterSize) }

\* the counter kept instead of renewed
renewNodeCtr_kept(this) == {[threw |-> FALSE, nodeCtr |-> this.prevNodeCtr]}

\* counter >= 1 << this.counterSize
tooLarge(counter, counterSize) ==
    /\ ~counter.neg
    /\ WLeq(WFromNat(ShiftLeft(1, counterSize)), counter.mag)

\* renewNodeCtr(timestamp): for each value renew() may return, whether the
\* method throws and the nodeCtr it returns otherwise
renewNodeCtr(this) ==
    LET nodeId == getNodeId(this)
    IN  { IF tooLarge(counter, this.counterSize)
          THEN [threw |-> TRUE, nodeCtr |-> this.prevNodeCtr]
          ELSE [threw |-> FALSE,
                nodeCtr |-> BitOr(ShiftLeft(nodeId, this.counterSize),
                                  ToInt32(counter))]
          : counter \in renew(this.counterMode, this.counterSize) }

\* return Scru64Id.fromParts(this.prevTimestamp, this.prevNodeCtr), which
\* throws after the fields were assigned
returnFromParts(this, reset) ==
    Outcome(this, fromParts(this.prevTimestamp, this.prevNodeCtr), reset)

\* this.prevNodeCtr = this.renewNodeCtr(this.prevTimestamp), then the return;
\* `this` already holds the new prevTimestamp
renewAndReturn(this, reset) ==
    { IF r.threw
      THEN Outcome(this, Thrown("Error"), reset)
      ELSE returnFromParts([this EXCEPT !.prevNodeCtr = r.nodeCtr], reset)
      : r \in renewNodeCtr(this) }

\* the argument checks of generateOrAbortCore: whether it throws RangeError
argumentsThrow(ts, allowance) ==
    \/ IsNonPositive(ts)
    \/ IsNegative(allowance)
    \/ WLess(MAX_ALLOWANCE, allowance.mag)

\* the boundary one tick further, timestamp + allowance + 1 >= prevTimestamp
withinAllowance_lenient(this, ts, allowance) ==
    WLeq(this.prevTimestamp, WInc(WAdd(ts, allowance)))

\* the exclusive boundary, timestamp + allowance > this.prevTimestamp
withinAllowance_exclusive(this, ts, allowance) ==
    WLess(this.prevTimestamp, WAdd(ts, allowance))

\* no rollback taken for significant
withinAllowance_always(this, ts, allowance) == TRUE

\* timestamp + allowance >= this.prevTimestamp
withinAllowance(this, ts, allowance) ==
    WLeq(this.prevTimestamp, WAdd(ts, allowance))

\* a mask one bit too wide
counterMask_wide(this) == ShiftLeft(1, this.counterSize + 1) - 1

\* (1 << this.counterSize) - 1
counterMask(this) == ShiftLeft(1, this.counterSize) - 1

\* the increment left out
incrementCounter_skipped(this) == this

\* this.prevNodeCtr++
incrementCounter(this) == [this EXCEPT !.prevNodeCtr = @ + 1]

\* the timestamp stored before the rollback is judged
abortOnRollback_stored(this, ts) ==
    {Outcome([this EXCEPT !.prevTimestamp = ts], Undefined, FALSE)}

\* the significant-rollback branch: return undefined
abortOnRollback(this, ts) == {Outcome(this, Undefined, FALSE)}

\* generateOrAbortCore(unixTsMs, rollbackAllowance): the set of outcomes
generateOrAbortCore(this, unixTsMs, rollbackAllowance) ==
    LET ts        == TruncDiv256(unixTsMs)
        allowance == TruncDiv256(rollbackAllowance)
    IN  IF argumentsThrow(ts, allowance)
        THEN {Outcome(this, Thrown("RangeError"), FALSE)}
        ELSE IF WLess(this.prevTimestamp, ts.mag)
        THEN renewAndReturn([this EXCEPT !.prevTimestamp = ts.mag], FALSE)
        ELSE IF withinAllowance(this, ts.mag, allowance.mag)
        THEN IF BitAnd(this.prevNodeCtr, counterMask(this)) < counterMask(this)
             THEN {returnFromParts(incrementCounter(this), FALSE)}
             ELSE renewAndReturn(
                      [this EXCEPT !.prevTimestamp = WInc(@)], FALSE)
        ELSE abortOnRollback(this, ts.mag)

\* the reset taken on every rollback, whatever the allowance
generateOrResetCore_eager(this, unixTsMs, rollbackAllowance) ==
    LET ts        == TruncDiv256(unixTsMs)
        allowance == TruncDiv256(rollbackAllowance)
    IN  IF ~argumentsThrow(ts, allowance) /\ WLess(ts.mag, this.prevTimestamp)
        THEN renewAndReturn([this EXCEPT !.prevTimestamp = ts.mag], TRUE)
        ELSE generateOrAbortCore(this, unixTsMs, rollbackAllowance)

\* generateOrResetCore(unixTsMs, rollbackAllowance): the set of outcomes
generateOrResetCore(this, unixTsMs, rollbackAllowance) ==
    UNION { IF o.result # Undefined
            THEN {o}
            ELSE renewAndReturn(
                     [o.gen EXCEPT !.prevTimestamp = TruncDiv256(unixTsMs).mag],
                     TRUE)
            : o \in generateOrAbortCore(this, unixTsMs, rollbackAllowance) }

\* generate() resetting the generator upon a significant rollback
generate_resetting(this, now) ==
    generateOrResetCore(this, now, DEFAULT_ROLLBACK_ALLOWANCE)

\* generate() without any allowance
generate_strict(this, now) ==
    generateOrAbortCore(this, now, Num(FALSE, <<>>))

\* generate(), Date.now() having returned `now`
generate(this, now) ==
    generateOrAbortCore(this, now, DEFAULT_ROLLBACK_ALLOWANCE)

\* generateOrReset(), Date.now() having returned `now`
generateOrReset(this, now) ==
    generateOrResetCore(this, now, DEFAULT_ROLLBACK_ALLOWANCE)

(***************************************************************************)
(* The state machine: generators, the calls made on them, and what each    *)
(* call handed back.                                                       *)
(***************************************************************************)

VARIABLES
    gen,      \* gen[g]: the fields of generator object g
    SCRU64_NODE_SPEC,  \* the global variable of that name, or Undefined
    heap,     \* the Uint8Array and Scru64Id objects that are told apart
    clock,    \* the wall clock: what Date.now() returns, where it is followed
    pending,  \* pending[g]: generateOrAwait() calls suspended in setTimeout
    spin,     \* the generator whose generateOrSleep() busy loop runs, or 0
    call,     \* the latest call: method, arguments, the object before it
    result,   \* what the latest call handed back
    hist      \* hist[g]: the IDs generator g has returned so far

\* no Uint8Array and no Scru64Id is told apart from its value
NoObjects == [arrays |-> <<>>, ids |-> <<>>]

vars == <<gen, SCRU64_NODE_SPEC, heap, clock, pending, spin, call, result, hist>>

\* low clock ticks (256 ms units) are 1..MaxTick
MaxTick == 1

\* how far beyond every tick supplied the stored timestamp is followed
MaxAhead == 1

\* generateOrAwait() calls suspended at once, per generator
MaxPending == 1

\* the widest counter whose renewals are enumerated: renew() has 2^k results
MaxCounterSize == 6

\* a tick that leaves tick MaxTick exactly the default allowance (39) behind
FarTick == WFromNat(MaxTick + 39)

LowTicks == { WFromNat(n) : n \in 1..MaxTick }

\* tick * 256 + off milliseconds
Ms(tick, off) == Num(FALSE, WNorm(Append(tick, off)))

\* valid unixTsMs arguments: the low ticks (tick 1 as 511 ms), the far tick
\* and the last tick of the format
ValidUnixTsMs ==
    { Ms(t, IF t = <<1>> THEN 255 ELSE 0) : t \in LowTicks \cup {FarTick} } \cup
    { Ms(MAX_TIMESTAMP, 255) }

\* unixTsMs arguments below the range: 255 ms (tick 0) and -256 ms
LowUnixTsMs == { Ms(<<>>, 255), Num(TRUE, <<1, 0>>) }

\* a unixTsMs argument above the range: the first tick after MAX_TIMESTAMP
HighUnixTsMs == { Ms(WInc(MAX_TIMESTAMP), 0) }

\* valid rollbackAllowance arguments: 0, 300, 10000 ms and the largest one
ValidAllowance ==
    { Num(FALSE, <<>>), Num(FALSE, <<1, 44>>), DEFAULT_ROLLBACK_ALLOWANCE,
      Ms(MAX_ALLOWANCE, 255) }

\* rollbackAllowance arguments out of range: the smallest too large, -256 ms
InvalidAllowance == { Ms(WInc(MAX_ALLOWANCE), 0), Num(TRUE, <<1, 0>>) }

\* the (unixTsMs, rollbackAllowance) pairs the Core methods are called with
\* by a caller that stays at or below MAX_TIMESTAMP; -255 ms is an allowance
\* that truncates to -0
CoreInputs ==
    (ValidUnixTsMs \X ValidAllowance) \cup
    (LowUnixTsMs \X {Num(FALSE, <<>>)}) \cup
    ({Ms(<<1>>, 255)} \X (InvalidAllowance \cup {Num(TRUE, <<255>>)}))

\* the pairs of a caller that goes beyond MAX_TIMESTAMP as well
RangeInputs ==
    (({Ms(<<1>>, 255), Ms(MAX_TIMESTAMP, 255)} \cup HighUnixTsMs)
        \X {Num(FALSE, <<>>), Ms(MAX_ALLOWANCE, 255)}) \cup
    (LowUnixTsMs \X {Num(FALSE, <<>>)}) \cup
    ({Ms(<<1>>, 255)} \X InvalidAllowance)

\* values Date.now() returns
ClockInputs == { Ms(<<1>>, 255), Ms(FarTick, 0) }

\* the ticks the stored timestamp is followed from
Ticks == LowTicks \cup {FarTick, MAX_TIMESTAMP, WInc(MAX_TIMESTAMP)}

\* the stored timestamps followed: 0, and up to MaxAhead beyond a tick
InWindow(ts) ==
    \/ ts = <<>>
    \/ \E b \in Ticks : WLeq(b, ts) /\ WLeq(ts, WAdd(b, WFromNat(MaxAhead)))

\* constructor arguments the generator is built from
GeneratorConfigs ==
    { [nodeSpec |-> [nodeId |-> 6, nodeIdSize |-> 23],
       counterMode |-> ConformingCounterMode],
      [nodeSpec |-> [nodePrev |-> fromPartsBytes(<<1>>, ShiftLeft(1, 24) - 3),
                     nodeIdSize |-> 22],
       counterMode |-> DefaultCounterMode(1)] }

Pending == [kind |-> "pending", bytes |-> <<>>]

\* the IDs a generator has returned, as far as the properties need them:
\* the latest, the greatest (until the generator is reset), how many (up to
\* 2), one picked among them, and what the generator was built from
InitHist(nodeSpec) ==
    [lastId    |-> NoResult,
     maxId     |-> NoResult,
     count     |-> 0,
     sample    |-> NoResult,
     nodePrev  |-> IF "nodePrev" \in DOMAIN nodeSpec
                   THEN Returned(nodeSpec.nodePrev) ELSE NoResult,
     nodeId    |-> IF "nodePrev" \in DOMAIN nodeSpec
                   THEN ShiftRight(nodeCtr(nodeSpec.nodePrev),
                                   NODE_CTR_SIZE - nodeSpec.nodeIdSize)
                   ELSE nodeSpec.nodeId,
     nodeIdSize |-> nodeSpec.nodeIdSize,
     everReset |-> FALSE]

\* ID r compares greater than s, if s is an ID at all
Greater(r, s) == s.kind # "id" \/ compareTo(r.bytes, s.bytes) > 0

NextHist(h, o, pick) ==
    LET everReset == h.everReset \/ o.reset
    IN  IF o.result.kind = "id"
        THEN [h EXCEPT !.lastId = o.result,
                       !.maxId = IF everReset THEN NoResult
                                 ELSE IF Greater(o.result, @) THEN o.result
                                 ELSE @,
                       !.count = IF @ < 2 THEN @ + 1 ELSE @,
                       !.sample = IF pick THEN o.result ELSE @,
                       !.everReset = everReset]
        ELSE [h EXCEPT !.everReset = everReset,
                       !.maxId = IF everReset THEN NoResult ELSE @]

NoCall(this, h) ==
    [g |-> 0, op |-> "none",
     unixTsMs |-> Num(FALSE, <<>>), rollbackAllowance |-> Num(FALSE, <<>>),
     reset |-> FALSE, pre |-> this, preHist |-> h, preSpin |-> 0,
     prePending |-> 0, nodeSpec |-> Undefined, args |-> <<>>]

Init ==
    /\ \E c \in GeneratorConfigs :
          /\ ~constructorThrows(c.nodeSpec)
          /\ gen = [g \in {1} |-> constructor(c.nodeSpec, c.counterMode)]
          /\ hist = [g \in {1} |-> InitHist(c.nodeSpec)]
    /\ pending = [g \in {1} |-> 0]
    /\ spin = 0
    /\ clock = Ms(<<1>>, 255)
    /\ SCRU64_NODE_SPEC = Undefined
    /\ heap = NoObjects
    /\ call = NoCall(gen[1], hist[1])
    /\ result = NoResult

\* the bookkeeping common to every call: outcome o of method op on generator
\* g, `handed` being what the caller sees
Record(g, op, unixTsMs, rollbackAllowance, o, handed, pick) ==
    /\ InWindow(o.gen.prevTimestamp)
    /\ gen' = [gen EXCEPT ![g] = o.gen]
    /\ result' = handed
    /\ call' = [g |-> g, op |-> op, unixTsMs |-> unixTsMs,
                rollbackAllowance |-> rollbackAllowance,
                reset |-> o.reset, pre |-> gen[g], preHist |-> hist[g],
                preSpin |-> spin, prePending |-> pending[g],
                nodeSpec |-> Undefined, args |-> <<>>]
    /\ hist' = [hist EXCEPT ![g] = NextHist(@, o, pick)]
    /\ UNCHANGED <<clock, SCRU64_NODE_SPEC, heap>>

\* g.generateOrAbortCore(unixTsMs, rollbackAllowance)
CallGenerateOrAbortCore(g, unixTsMs, rollbackAllowance, pick) ==
    /\ spin = 0
    /\ \E o \in generateOrAbortCore(gen[g], unixTsMs, rollbackAllowance) :
          Record(g, "generateOrAbortCore", unixTsMs, rollbackAllowance,
                 o, o.result, pick)
    /\ UNCHANGED <<pending, spin>>

\* g.generateOrResetCore(unixTsMs, rollbackAllowance)
CallGenerateOrResetCore(g, unixTsMs, rollbackAllowance, pick) ==
    /\ spin = 0
    /\ \E o \in generateOrResetCore(gen[g], unixTsMs, rollbackAllowance) :
          Record(g, "generateOrResetCore", unixTsMs, rollbackAllowance,
                 o, o.result, pick)
    /\ UNCHANGED <<pending, spin>>

\* g.generate()
CallGenerate(g, now) ==
    /\ spin = 0
    /\ \E o \in generate(gen[g], now) :
          Record(g, "generate", now, DEFAULT_ROLLBACK_ALLOWANCE,
                 o, o.result, FALSE)
    /\ UNCHANGED <<pending, spin>>

\* g.generateOrReset()
CallGenerateOrReset(g, now) ==
    /\ spin = 0
    /\ \E o \in generateOrReset(gen[g], now) :
          Record(g, "generateOrReset", now, DEFAULT_ROLLBACK_ALLOWANCE,
                 o, o.result, FALSE)
    /\ UNCHANGED <<pending, spin>>

\* one turn of the while (true) loop of generateOrSleep(): the call returns
\* the ID, or the loop goes on (nothing else runs meanwhile)
GenerateOrSleepTurn(g, now) ==
    \E o \in generate(gen[g], now) :
       /\ Record(g, "generateOrSleep", now, DEFAULT_ROLLBACK_ALLOWANCE, o,
                 IF o.result = Undefined THEN Pending ELSE o.result, FALSE)
       /\ spin' = IF o.result = Undefined THEN g ELSE 0
       /\ UNCHANGED pending

\* g.generateOrSleep() is called
CallGenerateOrSleep(g, now) == spin = 0 /\ GenerateOrSleepTurn(g, now)

\* the busy loop of generateOrSleep() takes another turn
RetryGenerateOrSleep(g, now) == spin = g /\ GenerateOrSleepTurn(g, now)

\* g.generateOrAwait() is called: the first generate() of its loop
CallGenerateOrAwait(g, now) ==
    /\ spin = 0
    /\ pending[g] < MaxPending
    /\ \E o \in generate(gen[g], now) :
          /\ Record(g, "generateOrAwait", now, DEFAULT_ROLLBACK_ALLOWANCE, o,
                    IF o.result = Undefined THEN Pending ELSE o.result, FALSE)
          /\ pending' = IF o.result = Undefined
                        THEN [pending EXCEPT ![g] = @ + 1] ELSE pending
    /\ UNCHANGED spin

\* the setTimeout of a suspended generateOrAwait() fires: generate() again
RetryGenerateOrAwait(g, now) ==
    /\ spin = 0
    /\ pending[g] > 0
    /\ \E o \in generate(gen[g], now) :
          /\ Record(g, "generateOrAwait", now, DEFAULT_ROLLBACK_ALLOWANCE, o,
                    IF o.result = Undefined THEN Pending ELSE o.result, FALSE)
          /\ pending' = IF o.result = Undefined
                        THEN pending ELSE [pending EXCEPT ![g] = @ - 1]
    /\ UNCHANGED spin

\* the Core methods and their Date.now() wrappers, on one generator
Next ==
    \/ \E in \in CoreInputs : CallGenerateOrAbortCore(1, in[1], in[2], FALSE)
    \/ \E in \in CoreInputs : CallGenerateOrResetCore(1, in[1], in[2], FALSE)
    \/ \E now \in ClockInputs : CallGenerate(1, now)
    \/ \E now \in ClockInputs : CallGenerateOrReset(1, now)

Spec == Init /\ [][Next]_vars

\* the methods that never reset the generator
NextMonotonic ==
    \/ \E in \in CoreInputs : CallGenerateOrAbortCore(1, in[1], in[2], FALSE)
    \/ \E now \in ClockInputs : CallGenerate(1, now)
    \/ \E now \in ClockInputs : CallGenerateOrSleep(1, now)
    \/ \E now \in ClockInputs : RetryGenerateOrSleep(1, now)
    \/ \E now \in ClockInputs : CallGenerateOrAwait(1, now)
    \/ \E now \in ClockInputs : RetryGenerateOrAwait(1, now)

SpecMonotonic == Init /\ [][NextMonotonic]_vars

\* the Core methods under timestamps on both sides of MAX_TIMESTAMP
NextRange ==
    \/ \E in \in RangeInputs : CallGenerateOrAbortCore(1, in[1], in[2], FALSE)
    \/ \E in \in RangeInputs : CallGenerateOrResetCore(1, in[1], in[2], FALSE)

SpecRange == Init /\ [][NextRange]_vars

\* two generators of one nodeIdSize and different nodeIds
PairConfigs ==
    << [nodeSpec |-> [nodeId |-> 6, nodeIdSize |-> 23],
        counterMode |-> ConformingCounterMode],
       [nodeSpec |-> [nodeId |-> 7, nodeIdSize |-> 23],
        counterMode |-> NoCounterMode] >>

\* the arguments of the two generators' calls: the low ticks without
\* allowance, which the stored timestamp passes at a counter overflow
PairInputs == {Ms(t, 255) : t \in LowTicks} \X {Num(FALSE, <<>>)}

InitPair ==
    /\ gen = [g \in {1, 2} |->
                constructor(PairConfigs[g].nodeSpec, PairConfigs[g].counterMode)]
    /\ hist = [g \in {1, 2} |-> InitHist(PairConfigs[g].nodeSpec)]
    /\ pending = [g \in {1, 2} |-> 0]
    /\ spin = 0
    /\ clock = Ms(<<1>>, 255)
    /\ SCRU64_NODE_SPEC = Undefined
    /\ heap = NoObjects
    /\ call = NoCall(gen[1], hist[1])
    /\ result = NoResult

\* either generator is called; any ID returned may be the one remembered
NextPair ==
    \/ \E g \in {1, 2}, in \in PairInputs, pick \in BOOLEAN :
          CallGenerateOrAbortCore(g, in[1], in[2], pick)
    \/ \E g \in {1, 2}, in \in PairInputs, pick \in BOOLEAN :
          CallGenerateOrResetCore(g, in[1], in[2], pick)

SpecPair == InitPair /\ [][NextPair]_vars

\* arguments in exact milliseconds: tick 1 at its first and last
\* millisecond, under allowances of 1 ms, one tick, and 300 ms
AllowanceInputs ==
    { Ms(<<1>>, 0), Ms(<<1>>, 255) }
        \X { Num(FALSE, <<1>>), Ms(<<1>>, 0), Num(FALSE, <<1, 44>>) }

\* the Core methods under those arguments
NextAllowance ==
    \/ \E in \in AllowanceInputs :
          CallGenerateOrAbortCore(1, in[1], in[2], FALSE)
    \/ \E in \in AllowanceInputs :
          CallGenerateOrResetCore(1, in[1], in[2], FALSE)

SpecAllowance == Init /\ [][NextAllowance]_vars

\* generators for the waiting methods: one built from a nodePrev one tick
\* beyond the far tick, and a fresh one
LiveConfigs ==
    { [nodeSpec |-> [nodePrev |-> fromPartsBytes(WInc(FarTick), ShiftLeft(1, 2)),
                     nodeIdSize |-> 22],
       counterMode |-> ConformingCounterMode],
      [nodeSpec |-> [nodeId |-> 1, nodeIdSize |-> 22],
       counterMode |-> DefaultCounterMode(1)] }

\* the wall clock of the waiting methods: tick MaxTick, which is more than
\* the default allowance behind the nodePrev above, and the tick after it,
\* which is exactly the allowance behind, and the far tick
LiveClock ==
    { Ms(WFromNat(MaxTick), 255), Ms(WFromNat(MaxTick + 1), 0), Ms(FarTick, 0) }

InitLive ==
    /\ \E c \in LiveConfigs :
          /\ ~constructorThrows(c.nodeSpec)
          /\ gen = [g \in {1} |-> constructor(c.nodeSpec, c.counterMode)]
          /\ hist = [g \in {1} |-> InitHist(c.nodeSpec)]
    /\ pending = [g \in {1} |-> 0]
    /\ spin = 0
    /\ clock \in LiveClock
    /\ SCRU64_NODE_SPEC = Undefined
    /\ heap = NoObjects
    /\ call = NoCall(gen[1], hist[1])
    /\ result = NoResult

\* the wall clock changes, forwards or backwards
ClockMoves(now) ==
    /\ now # clock
    /\ clock' = now
    /\ UNCHANGED <<gen, SCRU64_NODE_SPEC, heap, pending, spin, call, result, hist>>

\* the caller asks for two IDs at most
CallsLeft ==
    hist[1].count + pending[1] + (IF spin = 0 THEN 0 ELSE 1) < 2

\* generateOrSleep() and generateOrAwait() under a wall clock that moves
NextLive ==
    \/ \E now \in LiveClock : ClockMoves(now)
    \/ CallsLeft /\ CallGenerateOrSleep(1, clock)
    \/ RetryGenerateOrSleep(1, clock)
    \/ CallsLeft /\ CallGenerateOrAwait(1, clock)
    \/ RetryGenerateOrAwait(1, clock)

\* the busy loop of generateOrSleep() goes on by itself, and the event loop
\* runs the setTimeout callback of generateOrAwait() once nothing else runs
SpecLive ==
    /\ InitLive
    /\ [][NextLive]_vars
    /\ WF_vars(RetryGenerateOrSleep(1, clock))
    /\ WF_vars(RetryGenerateOrAwait(1, clock))

\* nodeSpec strings: those the tests reject, more that miss the pattern,
\* and accepted and rejected ones at the limits of the node ID and its size
NodeSpecStrings ==
    { Text(<<>>),
      Text(<<"4", "2">>),
      Text(<<"/", "8">>),
      Text(<<"4", "2", "/">>),
      Text(<<" ", "4", "2", "/", "8">>),
      Text(<<"4", "2", "/", "8", " ">>),
      Text(<<" ", "4", "2", "/", "8", " ">>),
      Text(<<"4", "2", " ", "/", " ", "8">>),
      Text(<<"+", "4", "2", "/", "8">>),
      Text(<<"4", "2", "/", "+", "8">>),
      Text(<<"-", "4", "2", "/", "8">>),
      Text(<<"4", "2", "/", "-", "8">>),
      Text(<<"a", "b", "/", "8">>),
      Text(<<"1", "/", "2", "/", "3">>),
      Text(<<"0", "/", "0">>),
      Text(<<"0", "/", "2", "4">>),
      Text(<<"8", "/", "1">>),
      Text(<<"1", "0", "2", "4", "/", "8">>),
      Text(<<"0", "0", "0", "0", "0", "0", "0", "0", "0", "0", "0", "0", "1", "/", "8">>),
      Text(<<"1", "/", "0", "0", "1", "6">>),
      Text(<<"4", "2", "/", "8", "\n">>),
      Text(<<"0", "x", "/", "8">>),
      Text(<<"x", "2", "a", "/", "8">>),
      Text(<<"0", "x", "0", "0", "0", "0", "0", "0", "1", "/", "8">>),
      Text(<<"1", "2", "3", "4", "5", "6", "7", "8", "9", "/", "2", "3">>),
      Text(<<"0", "u", "3", "7", "5", "n", "x", "q", "h", "5", "c", "q", "/", "0">>),
      Text(<<"0", "u", "3", "7", "5", "n", "x", "q", "h", "5", "c", "q", "/", "2", "4">>),
      Text(<<"0", "u", "3", "7", "5", "n", "x", "q", "h", "5", "c", "/", "8">>),
      Text(<<"0", "u", "3", "7", "5", "n", "x", "q", "h", "5", "c", "_", "/", "8">>),
      Text(<<"/">>),
      Text(<<"4", "2", "/", "/", "8">>),
      Text(<<"4", "2", "/", "8", "/">>),
      Text(<<"4", ".", "2", "/", "8">>),
      Text(<<"1", "e", "1", "/", "8">>),
      Text(<<"0", "x", "g", "/", "8">>),
      Text(<<"1", "/", "9", "9", "9">>),
      Text(<<"4", "2", "/", "8">>),
      Text(<<"0", "4", "2", "/", "8">>),
      Text(<<"4", "2", "/", "0", "8">>),
      Text(<<"4", "2", "/", "0", "0", "8">>),
      Text(<<"0", "x", "2", "a", "/", "8">>),
      Text(<<"0", "X", "2", "A", "/", "8">>),
      Text(<<"0", "u", "3", "7", "5", "n", "x", "q", "h", "5", "c", "q", "/", "8">>),
      Text(<<"0", "U", "3", "7", "5", "N", "X", "Q", "H", "5", "C", "Q", "/", "1", "6">>),
      Text(<<"z", "z", "z", "z", "z", "z", "z", "z", "z", "z", "z", "z", "/", "2", "3">>),
      Text(<<"0", "0", "0", "0", "0", "0", "0", "0", "0", "0", "0", "0", "/", "1">>),
      Text(<<"0", "0", "0", "0", "0", "0", "0", "0", "0", "0", "4", "2", "/", "8">>),
      Text(<<"0", "x", "0", "0", "0", "0", "0", "0", "0", "0", "0", "0", "/", "8">>),
      Text(<<"0", "0", "0", "0", "0", "0", "0", "1", "/", "1">>),
      Text(<<"0", "0", "0", "0", "0", "0", "0", "2", "/", "1">>),
      Text(<<"8", "3", "8", "8", "6", "0", "7", "/", "2", "3">>),
      Text(<<"8", "3", "8", "8", "6", "0", "8", "/", "2", "3">>),
      Text(<<"9", "9", "9", "9", "9", "9", "9", "9", "/", "2", "3">>),
      Text(<<"0", "x", "7", "f", "f", "f", "f", "f", "/", "2", "3">>),
      Text(<<"0", "x", "8", "0", "0", "0", "0", "0", "/", "2", "3">>),
      Text(<<"0", "/", "1">>),
      Text(<<"1", "/", "1">>),
      Text(<<"2", "/", "1">>),
      Text(<<"2", "5", "5", "/", "8">>),
      Text(<<"2", "5", "6", "/", "8">>),
      Text(<<"0", "x", "f", "f", "/", "8">>),
      Text(<<"0", "x", "1", "0", "0", "/", "8">>),
      Text(<<"1", "/", "2", "3">>) }

\* Scru64Id values given as nodePrev
NodePrevs ==
    { fromPartsBytes(<<>>, 0), fromPartsBytes(<<1>>, ShiftLeft(1, 24) - 3),
      fromPartsBytes(<<1, 134, 213, 43, 190>>, 2777946), MAX_SCRU64_BYTES }

\* nodeSpec objects: node IDs and sizes at their limits, with and without a
\* fractional part, nodePrev values under sizes at the limits, and an object
\* that has neither
NodeSpecObjects ==
    { [nodeId |-> in[1], nodeIdSize |-> in[2]] :
        in \in { <<0, 1>>, <<1, 1>>, <<2, 1>>, <<-1, 1>>, <<0, 0>>, <<0, -1>>,
                 <<0, 23>>, <<0, 24>>, <<8388607, 23>>, <<8388608, 23>>,
                 <<42, 8>>, <<255, 8>>, <<256, 8>>, <<0, 32>>, <<1, 33>> } } \cup
    { [nodeId |-> 42, nodeIdSize |-> 8, fraction |-> f] :
        f \in { {"nodeId"}, {"nodeIdSize"} } } \cup
    { [nodePrev |-> b, nodeIdSize |-> n] :
        b \in NodePrevs, n \in {0, 1, 8, 23, 24} } \cup
    { [nodePrev |-> MAX_SCRU64_BYTES, nodeIdSize |-> 8,
       fraction |-> {"nodeIdSize"}],
      [nodeIdSize |-> 8] }

\* what `new` hands back when the constructor does not throw
Constructed == [kind |-> "object", bytes |-> <<>>]

\* no Scru64Generator object has been built
InitNew ==
    /\ gen = <<>>
    /\ hist = <<>>
    /\ pending = [g \in {1} |-> 0]
    /\ spin = 0
    /\ clock = Ms(<<1>>, 255)
    /\ SCRU64_NODE_SPEC = Undefined
    /\ heap = NoObjects
    /\ call = NoCall(Undefined, NoResult)
    /\ result = NoResult

\* new Scru64Generator(nodeSpec, counterMode), no object having been built:
\* the object is built unless the constructor throws
New(nodeSpec, counterMode) ==
    /\ gen = <<>>
    /\ IF constructorThrows(nodeSpec)
       THEN /\ result' = Thrown(constructorError(nodeSpec))
            /\ UNCHANGED <<gen, hist>>
       ELSE /\ result' = Constructed
            /\ gen' = [g \in {1} |-> constructor(nodeSpec, counterMode)]
            /\ hist' = [g \in {1} |-> InitHist(objectOf(nodeSpec))]
    /\ call' = [NoCall(Undefined, NoResult) EXCEPT !.g = 1, !.op = "new",
                                                   !.nodeSpec = nodeSpec]
    /\ UNCHANGED <<clock, SCRU64_NODE_SPEC, heap, pending, spin>>

\* a generator is built, and one whose counter has at most MaxCounterSize
\* bits returns up to two IDs
NextNew ==
    \/ \E nodeSpec \in NodeSpecStrings \cup NodeSpecObjects :
          New(nodeSpec, NoCounterMode)
    \/ /\ 1 \in DOMAIN gen
       /\ hist[1].count < 2
       /\ gen[1].counterSize <= MaxCounterSize
       /\ \E in \in PairInputs : CallGenerateOrAbortCore(1, in[1], in[2], FALSE)

SpecNew == InitNew /\ [][NextNew]_vars

(***************************************************************************)
(* The global generator: gen is empty while globalGen is undefined, and    *)
(* gen[1] is the global generator afterwards.                              *)
(***************************************************************************)

\* let globalGen: Scru64Generator | undefined
globalGen == IF gen = <<>> THEN Undefined ELSE gen[1]

\* the IDs the global generator has returned
globalHist == IF hist = <<>> THEN NoResult ELSE hist[1]

\* a generator built anew whenever one is asked for
getGlobalGenerator_fresh ==
    IF SCRU64_NODE_SPEC = Undefined
    THEN [error |-> "Error", gen |-> Undefined, hist |-> NoResult]
    ELSE IF constructorThrows(SCRU64_NODE_SPEC)
    THEN [error |-> constructorError(SCRU64_NODE_SPEC), gen |-> Undefined,
          hist |-> NoResult]
    ELSE [error |-> "none",
          gen |-> constructor(SCRU64_NODE_SPEC, NoCounterMode),
          hist |-> IF gen = <<>> THEN InitHist(objectOf(SCRU64_NODE_SPEC))
                   ELSE globalHist]

\* getGlobalGenerator(): the error thrown, or the generator returned, which
\* is built from SCRU64_NODE_SPEC when globalGen is undefined
getGlobalGenerator ==
    IF gen # <<>>
    THEN [error |-> "none", gen |-> globalGen, hist |-> globalHist]
    ELSE IF SCRU64_NODE_SPEC = Undefined
    THEN [error |-> "Error", gen |-> Undefined, hist |-> NoResult]
    ELSE IF constructorThrows(SCRU64_NODE_SPEC)
    THEN [error |-> constructorError(SCRU64_NODE_SPEC), gen |-> Undefined,
          hist |-> NoResult]
    ELSE [error |-> "none",
          gen |-> constructor(SCRU64_NODE_SPEC, NoCounterMode),
          hist |-> InitHist(objectOf(SCRU64_NODE_SPEC))]

\* a number or a bigint handed back
Value(kind, value) == [kind |-> kind, value |-> value]

\* a boolean handed back
Bool(value) == [kind |-> "boolean", value |-> value]

\* the latest call, made on the global generator found as globalGen
GlobalCall(op, now, nodeSpec) ==
    [NoCall(globalGen, globalHist) EXCEPT
        !.g = 1, !.op = op, !.unixTsMs = now,
        !.rollbackAllowance = DEFAULT_ROLLBACK_ALLOWANCE,
        !.preSpin = spin, !.prePending = pending[1] + pending[2],
        !.nodeSpec = nodeSpec]

\* an initialize() that installs a generator whether or not one exists
initialize_overwriting(nodeSpec) ==
    IF constructorThrows(nodeSpec)
    THEN [gen |-> gen, hist |-> hist,
          result |-> Thrown(constructorError(nodeSpec))]
    ELSE [gen |-> [g \in {1} |-> constructor(nodeSpec, NoCounterMode)],
          hist |-> [g \in {1} |-> InitHist(objectOf(nodeSpec))],
          result |-> Bool(TRUE)]

\* GlobalGenerator.initialize(nodeSpec): gen and hist afterwards, and what
\* the call hands back
initialize(nodeSpec) ==
    IF gen = <<>>
    THEN IF constructorThrows(nodeSpec)
         THEN [gen |-> gen, hist |-> hist,
               result |-> Thrown(constructorError(nodeSpec))]
         ELSE [gen |-> [g \in {1} |-> constructor(nodeSpec, NoCounterMode)],
               hist |-> [g \in {1} |-> InitHist(objectOf(nodeSpec))],
               result |-> Bool(TRUE)]
    ELSE [gen |-> gen, hist |-> hist, result |-> Bool(FALSE)]

\* GlobalGenerator.initialize(nodeSpec) is called
Initialize(nodeSpec) ==
    /\ spin = 0
    /\ gen' = initialize(nodeSpec).gen
    /\ hist' = initialize(nodeSpec).hist
    /\ result' = initialize(nodeSpec).result
    /\ call' = GlobalCall("initialize", Num(FALSE, <<>>), nodeSpec)
    /\ UNCHANGED <<clock, SCRU64_NODE_SPEC, heap, pending, spin>>

\* what an attempt hands to the caller of a string function: the string of
\* the ID, the error thrown, or nothing yet
StringOf(r) ==
    IF r = Undefined THEN Pending
    ELSE IF r.kind = "id" THEN Text(toString(r.bytes))
    ELSE r

\* what a loop around generate() hands to the caller of a function that
\* returns IDs: the ID, the error thrown, or nothing yet
IdOf(r) == IF r = Undefined THEN Pending ELSE r

\* getGlobalGenerator().generate(): the results possible, as gen, hist and
\* what generate() returns or the error thrown
globalGenerate(now) ==
    UNION {
        IF got.error # "none"
        THEN {[gen |-> gen, hist |-> hist, result |-> Thrown(got.error)]}
        ELSE { [gen |-> [g \in {1} |-> o.gen],
                hist |-> [g \in {1} |-> NextHist(got.hist, o, FALSE)],
                result |-> o.result] :
               o \in { o \in generate(got.gen, now) :
                         InWindow(o.gen.prevTimestamp) } } :
        got \in {getGlobalGenerator} }

\* one turn of a loop around the global generator's generate(), the ID
\* given as its string
globalAttempt(now) ==
    { [a EXCEPT !.result = StringOf(@)] : a \in globalGenerate(now) }

\* GlobalGenerator.generate(): what generate() returns goes to the caller,
\* undefined included
CallGlobalGenerate(now) ==
    /\ spin = 0
    /\ \E a \in globalGenerate(now) :
          /\ gen' = a.gen
          /\ hist' = a.hist
          /\ result' = a.result
          /\ call' = GlobalCall("GlobalGenerator.generate", now,
                                SCRU64_NODE_SPEC)
    /\ UNCHANGED <<clock, SCRU64_NODE_SPEC, heap, pending, spin>>

\* one turn of the busy loop of the global generator's generateOrSleep(),
\* entered through function op
GlobalGenerateOrSleepTurn(op, now) ==
    \E a \in globalGenerate(now) :
       /\ gen' = a.gen
       /\ hist' = a.hist
       /\ result' = IdOf(a.result)
       /\ spin' = IF a.result = Undefined THEN 2 ELSE 0
       /\ call' = GlobalCall(op, now, SCRU64_NODE_SPEC)
       /\ UNCHANGED <<clock, SCRU64_NODE_SPEC, heap, pending>>

\* GlobalGenerator.generateOrSleep() is called, by that name or as
\* scru64Sync()
CallGlobalGenerateOrSleep(op, now) ==
    spin = 0 /\ GlobalGenerateOrSleepTurn(op, now)

\* its busy loop takes another turn
RetryGlobalGenerateOrSleep(now) ==
    spin = 2 /\ GlobalGenerateOrSleepTurn(call.op, now)

\* GlobalGenerator.generateOrAwait() is called, by that name or as scru64():
\* the first turn of the loop of generateOrAwait()
CallGlobalGenerateOrAwait(op, now) ==
    /\ spin = 0
    /\ pending[2] < MaxPending
    /\ \E a \in globalGenerate(now) :
          /\ gen' = a.gen
          /\ hist' = a.hist
          /\ result' = IdOf(a.result)
          /\ pending' = IF a.result = Undefined
                        THEN [pending EXCEPT ![2] = @ + 1] ELSE pending
          /\ call' = GlobalCall(op, now, SCRU64_NODE_SPEC)
    /\ UNCHANGED <<clock, SCRU64_NODE_SPEC, heap, spin>>

\* the setTimeout of a suspended generateOrAwait() fires: another turn
RetryGlobalGenerateOrAwait(now) ==
    /\ spin = 0
    /\ pending[2] > 0
    /\ \E a \in globalGenerate(now) :
          /\ gen' = a.gen
          /\ hist' = a.hist
          /\ result' = IdOf(a.result)
          /\ pending' = IF a.result = Undefined
                        THEN pending ELSE [pending EXCEPT ![2] = @ - 1]
          /\ call' = GlobalCall("GlobalGenerator.generateOrAwait", now,
                                SCRU64_NODE_SPEC)
    /\ UNCHANGED <<clock, SCRU64_NODE_SPEC, heap, spin>>

\* a getter of GlobalGenerator: `got` is what getGlobalGenerator() did, which
\* installs the generator when there is none, or throws; `handed` is what
\* the getter reads from the generator it returned
GlobalRead(op, got, handed) ==
    /\ spin = 0
    /\ IF got.error # "none"
       THEN /\ result' = Thrown(got.error)
            /\ UNCHANGED <<gen, hist>>
       ELSE /\ result' = handed
            /\ gen' = [g \in {1} |-> got.gen]
            /\ hist' = [g \in {1} |-> got.hist]
    /\ call' = GlobalCall(op, Num(FALSE, <<>>), SCRU64_NODE_SPEC)
    /\ UNCHANGED <<clock, SCRU64_NODE_SPEC, heap, pending, spin>>

\* GlobalGenerator.getNodeId()
CallGlobalGetNodeId ==
    \E got \in {getGlobalGenerator} :
       GlobalRead("GlobalGenerator.getNodeId", got,
                  Value("number", getNodeId(got.gen)))

\* GlobalGenerator.getNodePrev()
CallGlobalGetNodePrev ==
    \E got \in {getGlobalGenerator} :
       GlobalRead("GlobalGenerator.getNodePrev", got, getNodePrev(got.gen))

\* GlobalGenerator.getNodeIdSize()
CallGlobalGetNodeIdSize ==
    \E got \in {getGlobalGenerator} :
       GlobalRead("GlobalGenerator.getNodeIdSize", got,
                  Value("number", getNodeIdSize(got.gen)))

\* GlobalGenerator.getNodeSpec()
CallGlobalGetNodeSpec ==
    \E got \in {getGlobalGenerator} :
       GlobalRead("GlobalGenerator.getNodeSpec", got, getNodeSpec(got.gen))

\* scru64StringSync() is called, or its busy loop takes another turn
Scru64StringSyncTurn(now) ==
    \E a \in globalAttempt(now) :
       /\ gen' = a.gen
       /\ hist' = a.hist
       /\ result' = a.result
       /\ spin' = IF a.result = Pending THEN 1 ELSE 0
       /\ call' = GlobalCall("scru64StringSync", now, SCRU64_NODE_SPEC)
       /\ UNCHANGED <<clock, SCRU64_NODE_SPEC, heap, pending>>

CallScru64StringSync(now) == spin = 0 /\ Scru64StringSyncTurn(now)

RetryScru64StringSync(now) == spin = 1 /\ Scru64StringSyncTurn(now)

\* scru64String() is called: the first turn of its loop
CallScru64String(now) ==
    /\ spin = 0
    /\ pending[1] < MaxPending
    /\ \E a \in globalAttempt(now) :
          /\ gen' = a.gen
          /\ hist' = a.hist
          /\ result' = a.result
          /\ pending' = IF a.result = Pending
                        THEN [pending EXCEPT ![1] = @ + 1] ELSE pending
          /\ call' = GlobalCall("scru64String", now, SCRU64_NODE_SPEC)
    /\ UNCHANGED <<clock, SCRU64_NODE_SPEC, heap, spin>>

\* the setTimeout of a suspended scru64String() fires: another turn
RetryScru64String(now) ==
    /\ spin = 0
    /\ pending[1] > 0
    /\ \E a \in globalAttempt(now) :
          /\ gen' = a.gen
          /\ hist' = a.hist
          /\ result' = a.result
          /\ pending' = IF a.result = Pending
                        THEN pending ELSE [pending EXCEPT ![1] = @ - 1]
          /\ call' = GlobalCall("scru64String", now, SCRU64_NODE_SPEC)
    /\ UNCHANGED <<clock, SCRU64_NODE_SPEC, heap, spin>>

\* what SCRU64_NODE_SPEC holds: nothing, "6/23", "0x1/22", or "42"
GlobalNodeSpecs ==
    { Undefined, Text(<<"6", "/", "2", "3">>),
      Text(<<"0", "x", "1", "/", "2", "2">>), Text(<<"4", "2">>) }

\* what initialize() is given
InitializeSpecs ==
    { [nodeId |-> 5, nodeIdSize |-> 23], Text(<<"8", "/", "1">>) }

\* the wall clock of the global functions: before tick 1, tick 1, and the
\* last tick of the format
GlobalClock ==
    { Ms(<<>>, 255), Ms(<<1>>, 255), Ms(MAX_TIMESTAMP, 255) }

\* globalGen is undefined; pending[1] counts the suspended scru64String()
\* and pending[2] the suspended generateOrAwait()
InitGlobal ==
    /\ gen = <<>>
    /\ hist = <<>>
    /\ pending = [g \in {1, 2} |-> 0]
    /\ spin = 0
    /\ clock \in GlobalClock
    /\ SCRU64_NODE_SPEC \in GlobalNodeSpecs
    /\ heap = NoObjects
    /\ call = NoCall(Undefined, NoResult)
    /\ result = NoResult

\* the global functions under a wall clock that moves
NextGlobal ==
    \/ \E now \in GlobalClock : ClockMoves(now)
    \/ \E nodeSpec \in InitializeSpecs : Initialize(nodeSpec)
    \/ CallGlobalGenerate(clock)
    \/ \E op \in {"GlobalGenerator.generateOrSleep", "scru64Sync"} :
          CallGlobalGenerateOrSleep(op, clock)
    \/ RetryGlobalGenerateOrSleep(clock)
    \/ \E op \in {"GlobalGenerator.generateOrAwait", "scru64"} :
          CallGlobalGenerateOrAwait(op, clock)
    \/ RetryGlobalGenerateOrAwait(clock)
    \/ CallScru64StringSync(clock)
    \/ RetryScru64StringSync(clock)
    \/ CallScru64String(clock)
    \/ RetryScru64String(clock)
    \/ CallGlobalGetNodeId
    \/ CallGlobalGetNodePrev
    \/ CallGlobalGetNodeIdSize
    \/ CallGlobalGetNodeSpec

SpecGlobal == InitGlobal /\ [][NextGlobal]_vars

\* generators whose counter mode breaks the contract of renew()
RenewConfigs ==
    { [nodeSpec |-> [nodeId |-> 6, nodeIdSize |-> 23],
       counterMode |-> ContractBreakingCounterMode],
      [nodeSpec |-> [nodePrev |-> fromPartsBytes(<<1>>, ShiftLeft(1, 24) - 3),
                     nodeIdSize |-> 22],
       counterMode |-> ContractBreakingCounterMode] }

\* the arguments of their calls: two ticks, without and with allowance
RenewInputs ==
    ClockInputs \X {Num(FALSE, <<>>), DEFAULT_ROLLBACK_ALLOWANCE}

InitRenew ==
    /\ \E c \in RenewConfigs :
          /\ ~constructorThrows(c.nodeSpec)
          /\ gen = [g \in {1} |-> constructor(c.nodeSpec, c.counterMode)]
          /\ hist = [g \in {1} |-> InitHist(c.nodeSpec)]
    /\ pending = [g \in {1} |-> 0]
    /\ spin = 0
    /\ clock = Ms(<<1>>, 255)
    /\ SCRU64_NODE_SPEC = Undefined
    /\ heap = NoObjects
    /\ call = NoCall(gen[1], hist[1])
    /\ result = NoResult

\* the Core methods on a generator whose every renewal breaks the contract
NextRenew ==
    \/ \E in \in RenewInputs : CallGenerateOrAbortCore(1, in[1], in[2], FALSE)
    \/ \E in \in RenewInputs : CallGenerateOrResetCore(1, in[1], in[2], FALSE)

SpecRenew == InitRenew /\ [][NextRenew]_vars

\* generators with the default counter mode, left out or given
DefaultConfigs ==
    { [nodeSpec |-> [nodeId |-> 1, nodeIdSize |-> 20],
       counterMode |-> NoCounterMode],
      [nodeSpec |-> [nodeId |-> 1, nodeIdSize |-> 19],
       counterMode |-> NoCounterMode],
      [nodeSpec |-> [nodeId |-> 1, nodeIdSize |-> 21],
       counterMode |-> DefaultCounterMode(1)],
      [nodeSpec |-> [nodeId |-> 1, nodeIdSize |-> 22],
       counterMode |-> DefaultCounterMode(3)] }

InitDefault ==
    /\ \E c \in DefaultConfigs :
          /\ ~constructorThrows(c.nodeSpec)
          /\ gen = [g \in {1} |-> constructor(c.nodeSpec, c.counterMode)]
          /\ hist = [g \in {1} |-> InitHist(c.nodeSpec)]
    /\ pending = [g \in {1} |-> 0]
    /\ spin = 0
    /\ clock = Ms(<<1>>, 255)
    /\ SCRU64_NODE_SPEC = Undefined
    /\ heap = NoObjects
    /\ call = NoCall(gen[1], hist[1])
    /\ result = NoResult

\* the arguments of its calls: two ticks, without allowance
DefaultInputs == ClockInputs \X {Num(FALSE, <<>>)}

\* the Core methods on a generator with the default counter mode
NextDefault ==
    \/ \E in \in DefaultInputs : CallGenerateOrAbortCore(1, in[1], in[2], FALSE)
    \/ \E in \in DefaultInputs : CallGenerateOrResetCore(1, in[1], in[2], FALSE)

SpecDefault == InitDefault /\ [][NextDefault]_vars

(***************************************************************************)
(* getNodeSpec() and getNodePrev(), called between the generating methods  *)
(***************************************************************************)

\* constructor arguments: "42/22", "0x2a/22", "0X2A/22", the nodePrev string
\* "0u375nxqh5cq/22", the nodePrev string "00000000k000/22" whose timestamp
\* is 0, the objects of GeneratorConfigs, and a node ID under a counter mode
\* that breaks its contract
NodeConfigs ==
    { [nodeSpec |-> Text(t), counterMode |-> NoCounterMode] :
        t \in { <<"4", "2", "/", "2", "2">>,
                <<"0", "x", "2", "a", "/", "2", "2">>,
                <<"0", "X", "2", "A", "/", "2", "2">>,
                <<"0", "u", "3", "7", "5", "n", "x", "q", "h", "5", "c", "q",
                  "/", "2", "2">>,
                <<"0", "0", "0", "0", "0", "0", "0", "0", "k", "0", "0", "0",
                  "/", "2", "2">> } } \cup
    GeneratorConfigs \cup
    { [nodeSpec |-> [nodeId |-> 5, nodeIdSize |-> 23],
       counterMode |-> ContractBreakingCounterMode] }

\* the generator is built from one of NodeConfigs
InitNode ==
    /\ \E c \in NodeConfigs :
          /\ ~constructorThrows(c.nodeSpec)
          /\ gen = [g \in {1} |-> constructor(c.nodeSpec, c.counterMode)]
          /\ hist = [g \in {1} |-> InitHist(objectOf(c.nodeSpec))]
          /\ call = [NoCall(gen[1], hist[1]) EXCEPT
                        !.g = 1, !.op = "new", !.nodeSpec = c.nodeSpec]
    /\ pending = [g \in {1} |-> 0]
    /\ spin = 0
    /\ clock = Ms(<<1>>, 255)
    /\ SCRU64_NODE_SPEC = Undefined
    /\ heap = NoObjects
    /\ result = Constructed

\* a call of a method that reads the generator and changes nothing; what
\* the generator was built from is remembered until a generating call
Read(g, op, handed) ==
    /\ spin = 0
    /\ result' = handed
    /\ call' = [NoCall(gen[g], hist[g]) EXCEPT !.g = g, !.op = op,
                                                !.nodeSpec = call.nodeSpec]
    /\ UNCHANGED <<gen, hist, clock, SCRU64_NODE_SPEC, heap, pending, spin>>

\* g.getNodeSpec()
CallGetNodeSpec(g) == Read(g, "getNodeSpec", getNodeSpec(gen[g]))

\* g.getNodePrev()
CallGetNodePrev(g) == Read(g, "getNodePrev", getNodePrev(gen[g]))

\* the arguments of the generating calls: tick 1 and the last tick of the
\* format, without allowance and with the default one
NodeInputs ==
    { Ms(<<1>>, 255), Ms(MAX_TIMESTAMP, 255) }
        \X { Num(FALSE, <<>>), DEFAULT_ROLLBACK_ALLOWANCE }

\* a generator of a wide counter is followed for two IDs
NodeCallsLeft == hist[1].count < 2 \/ gen[1].counterSize <= 2

\* the generating methods, and the two getters between them
NextNode ==
    \/ /\ NodeCallsLeft
       /\ \E in \in NodeInputs : CallGenerateOrAbortCore(1, in[1], in[2], FALSE)
    \/ /\ NodeCallsLeft
       /\ \E in \in NodeInputs : CallGenerateOrResetCore(1, in[1], in[2], FALSE)
    \/ CallGetNodeSpec(1)
    \/ CallGetNodePrev(1)

SpecNode == InitNode /\ [][NextNode]_vars

(***************************************************************************)
(* The methods of Scru64Id, applied to arguments of every kind             *)
(***************************************************************************)

\* timestamp arguments of fromParts: 0, -0, 1, 2^32 - 1, 2^32, the largest
\* valid one and its neighbours, 2^40, and -1, 0.5, -0.5, NaN and the
\* fraction just above the largest valid one
IdTimestamps ==
    { Num(FALSE, <<>>), Num(TRUE, <<>>), Num(FALSE, <<1>>),
      Num(FALSE, <<255, 255, 255, 255>>), Num(FALSE, <<1, 0, 0, 0, 0>>),
      Num(FALSE, <<65, 194, 28, 184, 223>>), Num(FALSE, MAX_TIMESTAMP),
      Num(FALSE, WInc(MAX_TIMESTAMP)), Num(FALSE, <<1, 0, 0, 0, 0, 0>>),
      Num(TRUE, <<1>>), Fraction(FALSE, <<>>), Fraction(TRUE, <<>>), NaN,
      Fraction(FALSE, MAX_TIMESTAMP) }

\* nodeCtr arguments of fromParts: 0, 1, 2^16, the largest valid one and the
\* next, 2^32, and -1, 1.5 and NaN
IdNodeCtrs ==
    { Num(FALSE, <<>>), Num(FALSE, <<1>>), Num(FALSE, <<1, 0, 0>>),
      Num(FALSE, <<255, 255, 255>>), Num(FALSE, <<1, 0, 0, 0>>),
      Num(FALSE, <<1, 0, 0, 0, 0>>), Num(TRUE, <<1>>),
      Fraction(FALSE, <<1>>), NaN }

\* strings of 12 characters over 0-9, a-z and A-Z
ValidIdStrings ==
    { <<"0", "0", "0", "0", "0", "0", "0", "0", "0", "0", "0", "0">>,
      <<"z", "z", "z", "z", "z", "z", "z", "z", "z", "z", "z", "z">>,
      <<"Z", "Z", "Z", "Z", "Z", "Z", "Z", "Z", "Z", "Z", "Z", "Z">>,
      <<"0", "u", "3", "7", "5", "n", "x", "q", "h", "5", "c", "q">>,
      <<"0", "U", "3", "7", "5", "N", "X", "Q", "H", "5", "C", "Q">>,
      <<"0", "u", "3", "7", "5", "N", "x", "Q", "h", "5", "C", "q">>,
      <<"0", "0", "0", "0", "0", "0", "0", "9", "z", "l", "d", "r">>,
      <<"0", "0", "0", "0", "0", "0", "0", "0", "0", "0", "a", "Z">>,
      <<"9", "A", "9", "a", "9", "Z", "9", "z", "0", "0", "0", "0">>,
      <<"Z", "z", "z", "z", "z", "z", "z", "z", "z", "z", "z", "y">>,
      <<"1", "0", "0", "0", "0", "0", "0", "0", "0", "0", "0", "0">>,
      <<"0", "0", "7", "3", "z", "z", "z", "z", "z", "z", "z", "z">>,
      <<"0", "0", "0", "0", "0", "0", "0", "0", "A", "0", "0", "0">> }

\* the strings the tests reject, wrong lengths, and 12 characters with one
\* outside 0-9, a-z, A-Z: the neighbours of the three ranges in ASCII, and
\* the non-ASCII characters written U+00E9 and U+3042
InvalidIdStrings ==
    { <<>>,
      <<" ", "0", "u", "3", "w", "r", "p", "5", "g", "8", "1", "j", "x">>,
      <<"0", "u", "3", "w", "r", "p", "5", "g", "8", "1", "j", "y", " ">>,
      <<" ", "0", "u", "3", "w", "r", "p", "5", "g", "8", "1", "j", "z", " ">>,
      <<"+", "0", "u", "3", "w", "r", "p", "5", "g", "8", "1", "k", "0">>,
      <<"-", "0", "u", "3", "w", "r", "p", "5", "g", "8", "1", "k", "1">>,
      <<"+", "u", "3", "w", "r", "p", "5", "q", "7", "t", "a", "5">>,
      <<"-", "u", "3", "w", "r", "p", "5", "q", "7", "t", "a", "6">>,
      <<"0", "u", "3", "w", "_", "p", "5", "q", "7", "t", "a", "7">>,
      <<"0", "u", "3", "w", "r", "p", "5", "-", "7", "t", "a", "8">>,
      <<"0", "u", "3", "w", "r", "p", "5", "q", "7", "t", " ", "9">>,
      <<"0", "u", "3", "7", "5", "n", "x", "q", "h", "5", "c">>,
      <<"0", "u", "3", "7", "5", "n", "x", "q", "h", "5", "c", "q", "0">>,
      <<"0", "0", "0", "0", "0", "0", "0", "0", "0", "0", "0", "0", "0">>,
      <<"0", "u", "3", "7", "5", "n", "x", "q", "h", "5", "c", "U+00E9">>,
      <<"U+3042", "0", "u", "3", "7", "5", "n", "x", "q", "h", "5", "c">>,
      <<"0", "u", "3", "7", "5", "n", "x", "q", "h", "5", "c", ".">>,
      <<"0", "u", "3", "7", "5", "n", "x", "q", "h", "5", "c", "/">>,
      <<"0", "u", "3", "7", "5", "n", "x", "q", "h", "5", "c", ":">>,
      <<"0", "u", "3", "7", "5", "n", "x", "q", "h", "5", "c", "@">>,
      <<"0", "u", "3", "7", "5", "n", "x", "q", "h", "5", "c", "[">>,
      <<"0", "u", "3", "7", "5", "n", "x", "q", "h", "5", "c", "{">>,
      <<"z">> }

\* byte arrays given to ofInner: valid ones up to the maximum, 36^12, all
\* 0xFF, single bytes above those of the maximum, and arrays of 0, 7 and 9 bytes
IdByteArrays ==
    { <<0, 0, 0, 0, 0, 0, 0, 0>>, <<0, 0, 0, 0, 0, 0, 0, 1>>,
      <<1, 134, 213, 43, 190, 42, 99, 90>>, <<64, 255, 255, 255, 255, 255, 255, 255>>,
      <<65, 194, 28, 184, 224, 255, 255, 254>>, MAX_SCRU64_BYTES,
      <<65, 194, 28, 184, 225, 0, 0, 0>>, <<65, 194, 29, 0, 0, 0, 0, 0>>,
      <<65, 195, 0, 0, 0, 0, 0, 0>>, <<66, 0, 0, 0, 0, 0, 0, 0>>,
      <<255, 255, 255, 255, 255, 255, 255, 255>>,
      <<0, 0, 0, 0, 0, 0, 0, 255>>, <<65, 0, 255, 0, 0, 0, 0, 0>>,
      <<>>, <<0, 0, 0, 0, 0, 0, 0>>, <<0, 0, 0, 0, 0, 0, 0, 0, 0>>,
      <<65, 194, 28, 184, 224, 255, 255>> }

\* bigint arguments of fromBigInt: 0, 1, values about the maximum, 36^12,
\* 2^64 - 1, 2^64, 2^64 + 1, 2^72, and -1 and -2^64
IdBigInts ==
    { Num(in[1], in[2]) :
        in \in { <<FALSE, <<>>>>, <<FALSE, <<1>>>>,
                 <<FALSE, <<1, 134, 213, 43, 190, 42, 99, 90>>>>,
                 <<FALSE, <<64, 255, 255, 255, 255, 255, 255, 255>>>>,
                 <<FALSE, <<65, 194, 28, 184, 224, 255, 255, 254>>>>,
                 <<FALSE, MAX_SCRU64_BYTES>>,
                 <<FALSE, <<65, 194, 28, 184, 225, 0, 0, 0>>>>,
                 <<FALSE, <<66, 0, 0, 0, 0, 0, 0, 0>>>>,
                 <<FALSE, <<255, 255, 255, 255, 255, 255, 255, 255>>>>,
                 <<FALSE, <<1, 0, 0, 0, 0, 0, 0, 0, 0>>>>,
                 <<FALSE, <<1, 0, 0, 0, 0, 0, 0, 0, 1>>>>,
                 <<FALSE, <<1, 0, 0, 0, 0, 0, 0, 0, 0, 0>>>>,
                 <<TRUE, <<1>>>>,
                 <<TRUE, <<1, 0, 0, 0, 0, 0, 0, 0, 0>>>> } }

\* valid IDs: the least and the greatest, neighbours in the timestamp and
\* in the nodeCtr, and IDs whose strings differ where a digit meets a letter
IdValues ==
    { <<0, 0, 0, 0, 0, 0, 0, 0>>, <<0, 0, 0, 0, 0, 0, 0, 1>>,
      <<0, 0, 0, 0, 0, 0, 0, 9>>, <<0, 0, 0, 0, 0, 0, 0, 10>>,
      <<0, 0, 0, 0, 0, 0, 0, 35>>, <<0, 0, 0, 0, 0, 0, 0, 36>>,
      <<0, 0, 0, 0, 0, 255, 255, 255>>, <<0, 0, 0, 0, 1, 0, 0, 0>>,
      <<0, 0, 0, 0, 1, 255, 255, 255>>, <<0, 0, 0, 0, 2, 0, 0, 0>>,
      <<1, 0, 0, 0, 0, 0, 0, 1>>, <<1, 134, 213, 43, 190, 42, 99, 90>>,
      <<0, 0, 35, 255, 255, 255, 255, 255>>,
      <<64, 255, 255, 255, 255, 255, 255, 255>>,
      <<65, 0, 255, 0, 0, 0, 0, 0>>, <<65, 194, 28, 184, 224, 0, 0, 0>>,
      <<65, 194, 28, 184, 224, 255, 255, 254>>,
      <<65, 194, 28, 184, 224, 255, 255, 255>> }

\* the strings given to fromString
IdStrings == { s \in ValidIdStrings \cup InvalidIdStrings : TRUE }

\* nothing has been called
InitId ==
    /\ gen = <<>>
    /\ hist = <<>>
    /\ pending = [g \in {1} |-> 0]
    /\ spin = 0
    /\ clock = Ms(<<1>>, 255)
    /\ SCRU64_NODE_SPEC = Undefined
    /\ heap = NoObjects
    /\ call = NoCall(Undefined, NoResult)
    /\ result = NoResult

\* a call of a method of Scru64Id: its arguments (the ID it is called on
\* first) and what it hands back
Apply(op, args, handed) ==
    /\ result' = handed
    /\ call' = [g |-> 0, op |-> op,
                unixTsMs |-> Num(FALSE, <<>>),
                rollbackAllowance |-> Num(FALSE, <<>>),
                reset |-> FALSE, pre |-> Undefined, preHist |-> NoResult,
                preSpin |-> 0, prePending |-> 0, nodeSpec |-> Undefined,
                args |-> args]
    /\ UNCHANGED <<gen, hist, clock, SCRU64_NODE_SPEC, heap, pending, spin>>

\* the methods keep no state between calls: each call is made from the
\* initial state, where nothing has been called
NothingCalled == call.op = "none"

\* Scru64Id.fromParts(timestamp, nodeCtr)
CallFromParts(ts, nc) ==
    /\ NothingCalled
    /\ Apply("fromParts", <<ts, nc>>, Scru64Id_fromParts(ts, nc))

\* Scru64Id.fromString(value)
CallFromString(value) ==
    /\ NothingCalled
    /\ Apply("fromString", <<value>>, fromString(value))

\* Scru64Id.ofInner(bytes)
CallOfInner(bytes) ==
    /\ NothingCalled
    /\ Apply("ofInner", <<bytes>>, ofInner(bytes))

\* Scru64Id.fromBigInt(value)
CallFromBigInt(value) ==
    /\ NothingCalled
    /\ Apply("fromBigInt", <<value>>, fromBigInt(value))

\* this.toString()
CallToString(this) ==
    /\ NothingCalled
    /\ Apply("toString", <<this>>, Text(toString(this)))

\* this.toHex()
CallToHex(this) ==
    /\ NothingCalled
    /\ Apply("toHex", <<this>>, Text(toHex(this)))

\* this.toJSON()
CallToJSON(this) ==
    /\ NothingCalled
    /\ Apply("toJSON", <<this>>, Text(toJSON(this)))

\* this.toBigInt()
CallToBigInt(this) ==
    /\ NothingCalled
    /\ Apply("toBigInt", <<this>>, Value("bigint", toBigInt(this)))

\* this.compareTo(other)
CallCompareTo(this, other) ==
    /\ NothingCalled
    /\ Apply("compareTo", <<this, other>>,
             Value("number", compareTo(this, other)))

\* this.equals(other)
CallEquals(this, other) ==
    /\ NothingCalled
    /\ Apply("equals", <<this, other>>, Bool(equals(this, other)))

NextId ==
    \/ \E ts \in IdTimestamps, nc \in IdNodeCtrs : CallFromParts(ts, nc)
    \/ \E value \in IdStrings : CallFromString(value)
    \/ \E bytes \in IdByteArrays : CallOfInner(bytes)
    \/ \E value \in IdBigInts : CallFromBigInt(value)
    \/ \E this \in IdValues : CallToString(this)
    \/ \E this \in IdValues : CallToJSON(this)
    \/ \E this \in IdValues : CallToBigInt(this)
    \/ \E this \in IdValues, other \in IdValues : CallCompareTo(this, other)
    \/ \E this \in IdValues, other \in IdValues : CallEquals(this, other)

SpecId == InitId /\ [][NextId]_vars

(***************************************************************************)
(* Scru64Id objects and the byte arrays they hold                          *)
(***************************************************************************)

\* at most so many Scru64Id objects, and so many Uint8Array objects
MaxObjects == 2

\* heap.arrays[a] is the content of the Uint8Array a; heap.ids[x].bytes is
\* the array the Scru64Id x refers to

\* new Uint8Array(...) filled with bytes: the heap, the new array being the
\* last one
newUint8Array(h, bytes) == [h EXCEPT !.arrays = Append(@, bytes)]

\* new Scru64Id(bytes): this.bytes = bytes, the reference being kept
newScru64Id(h, a) == [h EXCEPT !.ids = Append(@, [bytes |-> a])]

\* the array of the object returned
clone_shared(h, x) == newScru64Id(h, h.ids[x].bytes)

\* clone(): new Scru64Id(this.bytes.slice(0))
clone(h, x) ==
    newScru64Id(newUint8Array(h, h.arrays[h.ids[x].bytes]),
                Len(h.arrays) + 1)

\* a reference to the Scru64Id x handed back
Object(x) == [kind |-> "Scru64Id", id |-> x]

\* how the Scru64Id objects were made, and whether their bytes were written
\* to: their arrays since, or for a clone the array it was copied from,
\* before
Made(op, x) ==
    [made |-> op, of |-> x, written |-> op = "clone" /\ hist[x].written]

InitBuffer ==
    /\ gen = <<>>
    /\ hist = <<>>
    /\ pending = [g \in {1} |-> 0]
    /\ spin = 0
    /\ clock = Ms(<<1>>, 255)
    /\ SCRU64_NODE_SPEC = Undefined
    /\ heap = NoObjects
    /\ call = NoCall(Undefined, NoResult)
    /\ result = NoResult

\* the bookkeeping of a call that threw, handing back the error
Throw(op, args, error) ==
    /\ result' = error
    /\ call' = [NoCall(Undefined, NoResult) EXCEPT !.op = op, !.args = args]
    /\ UNCHANGED <<gen, hist, heap, clock, SCRU64_NODE_SPEC, pending, spin>>

\* the bookkeeping of a call that made the heap h, its last Scru64Id being
\* the one handed back
Make(op, args, h, x) ==
    /\ heap' = h
    /\ hist' = Append(hist, Made(op, x))
    /\ result' = Object(Len(h.ids))
    /\ call' = [NoCall(Undefined, NoResult) EXCEPT !.op = op, !.args = args]
    /\ UNCHANGED <<gen, clock, SCRU64_NODE_SPEC, pending, spin>>

\* there is room for one more Scru64Id, and for one more Uint8Array
RoomForId == Len(heap.ids) < MaxObjects

RoomForArray == Len(heap.arrays) < MaxObjects

\* a factory that fills an array of its own: fromParts, fromString
MakeFresh(op, args, made) ==
    IF made.kind = "id"
    THEN Make(op, args,
              newScru64Id(newUint8Array(heap, made.bytes),
                          Len(heap.arrays) + 1), 0)
    ELSE Throw(op, args, made)

\* Scru64Id.ofInner(new Uint8Array(bytes)): the caller keeps the array
OfInnerOfNew(bytes) ==
    /\ RoomForId /\ RoomForArray
    /\ IF ofInner(bytes).kind = "id"
       THEN Make("ofInner", <<bytes>>,
                 newScru64Id(newUint8Array(heap, bytes),
                             Len(heap.arrays) + 1), 0)
       ELSE Throw("ofInner", <<bytes>>, ofInner(bytes))

\* Scru64Id.ofInner(x.bytes), the array of an object that exists
OfInnerOfBytes(x) ==
    /\ RoomForId
    /\ IF ofInner(heap.arrays[heap.ids[x].bytes]).kind = "id"
       THEN Make("ofInner", <<heap.arrays[heap.ids[x].bytes]>>,
                 newScru64Id(heap, heap.ids[x].bytes), x)
       ELSE Throw("ofInner", <<heap.arrays[heap.ids[x].bytes]>>,
                  ofInner(heap.arrays[heap.ids[x].bytes]))

\* Scru64Id.fromParts(timestamp, nodeCtr)
FromPartsObject(ts, nc) ==
    /\ RoomForId /\ RoomForArray
    /\ MakeFresh("fromParts", <<ts, nc>>, Scru64Id_fromParts(ts, nc))

\* Scru64Id.fromString(value)
FromStringObject(value) ==
    /\ RoomForId /\ RoomForArray
    /\ MakeFresh("fromString", <<value>>, fromString(value))

\* Scru64Id.fromBigInt(value): ofInner on an array of its own
FromBigIntObject(value) ==
    /\ RoomForId /\ RoomForArray
    /\ MakeFresh("fromBigInt", <<value>>, fromBigInt(value))

\* x.clone()
CallClone(x) ==
    /\ RoomForId /\ RoomForArray
    /\ Make("clone", <<x>>, clone(heap, x), x)

\* array[i] = byte by whoever holds the array (i 0-based): the caller that
\* gave it to ofInner, or anyone through x.bytes, which is read-only to the
\* type checker alone
WriteByte(a, i, byte) ==
    /\ heap.arrays[a][i + 1] # byte
    /\ heap' = [heap EXCEPT !.arrays[a][i + 1] = byte]
    /\ hist' = [x \in 1..Len(hist) |->
                  IF heap.ids[x].bytes = a
                  THEN [hist[x] EXCEPT !.written = TRUE] ELSE hist[x]]
    /\ result' = Undefined
    /\ call' = [NoCall(Undefined, NoResult) EXCEPT !.op = "write",
                                                   !.args = <<a, i, byte>>]
    /\ UNCHANGED <<gen, clock, SCRU64_NODE_SPEC, pending, spin>>

\* the arrays given to ofInner: 1, the maximum, all 0xFF, and 7 bytes
BufferArrays ==
    { <<0, 0, 0, 0, 0, 0, 0, 1>>, MAX_SCRU64_BYTES,
      <<255, 255, 255, 255, 255, 255, 255, 255>>, <<0, 0, 0, 0, 0, 0, 0>> }

\* the writes: the first byte set to 0xFF and the last to 0
BufferWrites == { <<0, 255>>, <<7, 0>> }

NextBuffer ==
    \/ \E bytes \in BufferArrays : OfInnerOfNew(bytes)
    \/ \E x \in 1..Len(heap.ids) : OfInnerOfBytes(x)
    \/ \E ts \in {Num(FALSE, <<1>>), Num(FALSE, WInc(MAX_TIMESTAMP))} :
          FromPartsObject(ts, Num(FALSE, <<255, 255, 255>>))
    \/ \E value \in { <<"z", "z", "z", "z", "z", "z", "z", "z", "z", "z", "z", "z">>,
                      <<"z">> } : FromStringObject(value)
    \/ \E value \in { Num(FALSE, MAX_SCRU64_BYTES),
                      Num(FALSE, <<1, 0, 0, 0, 0, 0, 0, 0, 0>>) } :
          FromBigIntObject(value)
    \/ \E x \in 1..Len(heap.ids) : CallClone(x)
    \/ \E a \in 1..Len(heap.arrays), w \in BufferWrites :
          WriteByte(a, w[1], w[2])

SpecBuffer == InitBuffer /\ [][NextBuffer]_vars

(***************************************************************************)
(* One generator called again and again with the same arguments            *)
(***************************************************************************)

\* generators with counters of 1 and 2 bits, fresh and built from a
\* nodePrev, under counter modes that keep their contract
BurstConfigs ==
    GeneratorConfigs \cup
    { [nodeSpec |-> [nodeId |-> 1, nodeIdSize |-> 22],
       counterMode |-> ConformingCounterMode],
      [nodeSpec |-> [nodePrev |-> fromPartsBytes(MAX_TIMESTAMP, 12),
                     nodeIdSize |-> 23],
       counterMode |-> ConformingCounterMode] }

\* the arguments kept: tick 1, the far tick and the last tick with no
\* allowance, and the last tick with an allowance of one tick (300 ms)
BurstInputs ==
    ({Ms(<<1>>, 255), Ms(FarTick, 0), Ms(MAX_TIMESTAMP, 255)}
        \X {Num(FALSE, <<>>)}) \cup
    {<<Ms(MAX_TIMESTAMP, 255), Num(FALSE, <<1, 44>>)>>}

InitBurst ==
    /\ \E c \in BurstConfigs :
          /\ ~constructorThrows(c.nodeSpec)
          /\ gen = [g \in {1} |-> constructor(c.nodeSpec, c.counterMode)]
          /\ hist = [g \in {1} |-> InitHist(c.nodeSpec)]
    /\ pending = [g \in {1} |-> 0]
    /\ spin = 0
    /\ clock = Ms(<<1>>, 255)
    /\ SCRU64_NODE_SPEC = Undefined
    /\ heap = NoObjects
    /\ call = NoCall(gen[1], hist[1])
    /\ result = NoResult

\* the arguments are those of the call before, if there was one
SameArguments(in) ==
    \/ call.op = "none"
    \/ call.unixTsMs = in[1] /\ call.rollbackAllowance = in[2]

\* g.generateOrAbortCore(unixTsMs, rollbackAllowance) with the arguments of
\* before
NextBurst ==
    \E in \in BurstInputs, pick \in BOOLEAN :
        /\ SameArguments(in)
        /\ CallGenerateOrAbortCore(1, in[1], in[2], pick)

SpecBurst == InitBurst /\ [][NextBurst]_vars

(***************************************************************************)
(* A generator and the one built from its getNodeSpec()                    *)
(***************************************************************************)

\* constructor arguments of the first generator: no counterMode argument
\* with a counter of 1 and 2 bits (fresh, from a nodePrev, and from a
\* nodePrev string of timestamp 0), and a caller-supplied mode
RebuildConfigs ==
    { [nodeSpec |-> [nodeId |-> 6, nodeIdSize |-> 23],
       counterMode |-> NoCounterMode],
      [nodeSpec |-> [nodePrev |-> fromPartsBytes(<<1>>, ShiftLeft(1, 24) - 3),
                     nodeIdSize |-> 22],
       counterMode |-> NoCounterMode],
      [nodeSpec |-> Text(<<"0", "0", "0", "0", "0", "0", "0", "0", "k", "0",
                           "0", "1", "/", "2", "2">>),
       counterMode |-> NoCounterMode],
      [nodeSpec |-> [nodeId |-> 6, nodeIdSize |-> 23],
       counterMode |-> ConformingCounterMode] }

\* the IDs a generator has returned, as far as the comparison needs them:
\* the greatest of them (sample), the greatest since the generator was last
\* reset (sinceReset), whether it was ever reset, and how many calls were
\* made on it since the rebuild
NoHist ==
    [sample |-> NoResult, sinceReset |-> NoResult, everReset |-> FALSE,
     calls |-> 0]

\* the calls the rebuilt generator is followed for
MaxRebuiltCalls == 2

\* gen[1] is the generator g; gen[2], once built, the one rebuilt from it
InitRebuild ==
    /\ \E c \in RebuildConfigs :
          /\ ~constructorThrows(c.nodeSpec)
          /\ gen = <<constructor(c.nodeSpec, c.counterMode)>>
          /\ hist = <<NoHist>>
    /\ pending = [g \in {1} |-> 0]
    /\ spin = 0
    /\ clock = Ms(<<1>>, 255)
    /\ SCRU64_NODE_SPEC = Undefined
    /\ heap = NoObjects
    /\ call = NoCall(gen[1], hist[1])
    /\ result = NoResult

\* the IDs remembered of a generator after outcome o
RebuildHist(h, o) ==
    LET kept == IF o.reset THEN NoResult ELSE h.sinceReset
    IN  [sample     |-> IF o.result.kind = "id" /\ Greater(o.result, h.sample)
                        THEN o.result ELSE h.sample,
         sinceReset |-> IF o.result.kind = "id" /\ Greater(o.result, kept)
                        THEN o.result ELSE kept,
         everReset  |-> h.everReset \/ o.reset,
         calls      |-> h.calls]

\* the two Core methods by name
Core(op, this, unixTsMs, rollbackAllowance) ==
    IF op = "generateOrAbortCore"
    THEN generateOrAbortCore(this, unixTsMs, rollbackAllowance)
    ELSE generateOrResetCore(this, unixTsMs, rollbackAllowance)

\* a Core method of g is called before the rebuild
CallBefore(op, unixTsMs, rollbackAllowance) ==
    /\ Len(gen) = 1
    /\ \E o \in Core(op, gen[1], unixTsMs, rollbackAllowance) :
          /\ InWindow(o.gen.prevTimestamp)
          /\ gen' = <<o.gen>>
          /\ hist' = <<RebuildHist(hist[1], o)>>
          /\ result' = o.result
          /\ call' = [NoCall(gen[1], hist[1]) EXCEPT
                         !.g = 1, !.op = op, !.unixTsMs = unixTsMs,
                         !.rollbackAllowance = rollbackAllowance,
                         !.reset = o.reset]
    /\ UNCHANGED <<clock, SCRU64_NODE_SPEC, heap, pending, spin>>

\* new Scru64Generator(g.getNodeSpec()): getNodeSpec() throws, or the
\* constructor throws, or the second generator is built; of g, the IDs it
\* had returned are remembered from then on
Rebuild ==
    /\ Len(gen) = 1
    /\ LET nodeSpec == getNodeSpec(gen[1])
           thrown   == IF ~IsString(nodeSpec) THEN nodeSpec
                       ELSE IF constructorThrows(nodeSpec)
                       THEN Thrown(constructorError(nodeSpec))
                       ELSE NoResult
       IN  /\ gen' = IF thrown # NoResult THEN gen
                     ELSE Append(gen, constructor(nodeSpec, NoCounterMode))
           /\ hist' = IF thrown # NoResult THEN hist
                      ELSE <<[NoHist EXCEPT
                                 !.sample = hist[1].sample,
                                 !.sinceReset = hist[1].sinceReset],
                             NoHist>>
           /\ result' = IF thrown # NoResult THEN thrown ELSE Constructed
           /\ call' = [NoCall(gen[1], hist[1]) EXCEPT
                          !.g = 2, !.op = "new", !.nodeSpec = nodeSpec]
    /\ UNCHANGED <<clock, SCRU64_NODE_SPEC, heap, pending, spin>>

\* the same Core method is called on both generators with the same
\* arguments, each generator drawing its own counter; call.args holds g and
\* call.pre the rebuilt one before the call; of the rebuilt generator it is
\* remembered whether it was ever reset and how many calls it had
CallBoth(op, unixTsMs, rollbackAllowance) ==
    /\ Len(gen) = 2
    /\ hist[2].calls < MaxRebuiltCalls
    /\ \E o1 \in Core(op, gen[1], unixTsMs, rollbackAllowance) :
       \E o2 \in Core(op, gen[2], unixTsMs, rollbackAllowance) :
          /\ InWindow(o1.gen.prevTimestamp)
          /\ InWindow(o2.gen.prevTimestamp)
          /\ gen' = <<o1.gen, o2.gen>>
          /\ hist' = <<hist[1], [hist[2] EXCEPT !.everReset = @ \/ o2.reset,
                                              !.calls = @ + 1]>>
          /\ result' = o2.result
          /\ call' = [NoCall(gen[2], hist[2]) EXCEPT
                         !.g = 2, !.op = op, !.unixTsMs = unixTsMs,
                         !.rollbackAllowance = rollbackAllowance,
                         !.reset = o2.reset, !.args = <<gen[1]>>]
    /\ UNCHANGED <<clock, SCRU64_NODE_SPEC, heap, pending, spin>>

\* the arguments of the calls: tick 1 and the last tick of the format,
\* without allowance
RebuildInputs == { Ms(<<1>>, 255), Ms(MAX_TIMESTAMP, 255) } \X {Num(FALSE, <<>>)}

\* g is called, rebuilt at any moment, and the two are called together
NextRebuild ==
    \/ \E in \in RebuildInputs : CallBefore("generateOrAbortCore", in[1], in[2])
    \/ \E in \in RebuildInputs : CallBefore("generateOrResetCore", in[1], in[2])
    \/ Rebuild
    \/ \E in \in RebuildInputs : CallBoth("generateOrAbortCore", in[1], in[2])
    \/ \E in \in RebuildInputs : CallBoth("generateOrResetCore", in[1], in[2])

SpecRebuild == InitRebuild /\ [][NextRebuild]_vars

(***************************************************************************)
(* Several tasks waiting on one generator                                  *)
(***************************************************************************)

\* the tasks that call generateOrAwait() or scru64String()
MaxTasks == 2

Tasks == 1..MaxTasks

AsyncMethods == {"generateOrAwait", "scru64String"}

\* the wall clock of the tasks: tick 1, the far tick, and the last tick of
\* the format, each more than the default allowance behind the next
TaskClock == { Ms(<<1>>, 255), Ms(FarTick, 0), Ms(MAX_TIMESTAMP, 255) }

\* the global generator is installed, with a counter of 1 or 2 bits;
\* pending[t] is the method task t is suspended in, or "none"
InitTasks ==
    /\ \E nodeSpec \in { [nodeId |-> 6, nodeIdSize |-> 23],
                         [nodeId |-> 1, nodeIdSize |-> 22] } :
          /\ ~constructorThrows(nodeSpec)
          /\ gen = [g \in {1} |-> constructor(nodeSpec, NoCounterMode)]
          /\ hist = [g \in {1} |-> InitHist(nodeSpec)]
    /\ pending = [t \in Tasks |-> "none"]
    /\ spin = 0
    /\ clock \in TaskClock
    /\ SCRU64_NODE_SPEC = Undefined
    /\ heap = NoObjects
    /\ call = NoCall(gen[1], hist[1])
    /\ result = NoResult

\* the generator updated without the ID being stored
attempt_unstored(op, this, now) ==
    { [gen |-> this, reset |-> o.reset, result |-> o.result,
       handed |-> IF o.result = Undefined THEN Pending
                  ELSE IF op = "scru64String" THEN StringOf(o.result)
                  ELSE o.result] :
        o \in generate(this, now) }

\* one turn of the while (true) loop of generateOrAwait() or scru64String():
\* the generator afterwards, what generate() returned, and what the task
\* hands to its caller (nothing yet when it suspends)
attempt(op, this, now) ==
    { [gen |-> o.gen, reset |-> o.reset, result |-> o.result,
       handed |-> IF o.result = Undefined THEN Pending
                  ELSE IF op = "scru64String" THEN StringOf(o.result)
                  ELSE o.result] :
        o \in generate(this, now) }

\* task t takes a turn of the loop of op: it returns, throws, or suspends
\* in setTimeout; call.args holds the task and the tasks suspended before
TaskTurn(t, op, now) ==
    \E a \in attempt(op, gen[1], now) :
       /\ InWindow(a.gen.prevTimestamp)
       /\ gen' = [gen EXCEPT ![1] = a.gen]
       /\ hist' = [hist EXCEPT ![1] = NextHist(@, a, FALSE)]
       /\ result' = a.handed
       /\ pending' = [pending EXCEPT
                         ![t] = IF a.handed = Pending THEN op ELSE "none"]
       /\ call' = [NoCall(gen[1], hist[1]) EXCEPT
                      !.g = 1, !.op = op, !.unixTsMs = now,
                      !.rollbackAllowance = DEFAULT_ROLLBACK_ALLOWANCE,
                      !.args = <<t, pending>>]
       /\ UNCHANGED <<clock, SCRU64_NODE_SPEC, heap, spin>>

\* task t calls generateOrAwait() or scru64String(): the first turn
CallTask(t, op, now) ==
    /\ pending[t] = "none"
    /\ TaskTurn(t, op, now)

\* the setTimeout of the suspended task t fires: another turn
RetryTask(t, now) ==
    /\ pending[t] # "none"
    /\ TaskTurn(t, pending[t], now)

\* the tasks call and resume in any order under a wall clock that moves
NextTasks ==
    \/ \E now \in TaskClock : ClockMoves(now)
    \/ \E t \in Tasks, op \in AsyncMethods : CallTask(t, op, clock)
    \/ \E t \in Tasks : RetryTask(t, clock)

SpecTasks == InitTasks /\ [][NextTasks]_vars

(***************************************************************************)
(* Properties                                                              *)
(***************************************************************************)

\* the converted arguments of the latest call
CallTs == TruncDiv256(call.unixTsMs)
CallAllowance == TruncDiv256(call.rollbackAllowance)

\* the latest call was one of the two Core methods
CoreCall == call.op \in {"generateOrAbortCore", "generateOrResetCore"}

\* C1: in a run of generate, generateOrSleep, generateOrAwait and
\* generateOrAbortCore calls on one generator, every ID returned compares
\* greater than every ID the generator returned before, and greater than
\* the nodePrev the generator was built from.
C1_ReturnedIdsIncrease ==
    result.kind = "id" =>
        /\ Greater(result, call.preHist.maxId)
        /\ Greater(result, hist[1].nodePrev)

\* C1 happens: a generator built from a nodePrev that has returned two IDs
\* returns a third one although the timestamp given is behind the stored one
C1_Witness ==
    /\ call.op = "generateOrAbortCore"
    /\ result.kind = "id"
    /\ call.preHist.count = 2
    /\ hist[1].nodePrev.kind = "id"
    /\ WLess(CallTs.mag, call.pre.prevTimestamp)

\* C2: when generateOrAbortCore returns undefined, prevTimestamp and
\* prevNodeCtr are what they were, getNodeId() and getNodeSpec() give what
\* they gave before, and the call repeated with the same or a smaller
\* (positive) timestamp and the same allowance returns undefined again
\* without changing the generator.
C2_AbortLeavesState ==
    (call.op = "generateOrAbortCore" /\ result = Undefined) =>
        /\ gen[1].prevTimestamp = call.pre.prevTimestamp
        /\ gen[1].prevNodeCtr = call.pre.prevNodeCtr
        /\ getNodeId(gen[1]) = getNodeId(call.pre)
        /\ getNodeId(gen[1]) = hist[1].nodeId
        /\ getNodeSpec(gen[1]) = getNodeSpec(call.pre)
        /\ \A in \in CoreInputs :
              ( /\ in[2] = call.rollbackAllowance
                /\ ~IsNonPositive(TruncDiv256(in[1]))
                /\ WLeq(TruncDiv256(in[1]).mag, CallTs.mag) )
              => generateOrAbortCore(gen[1], in[1], in[2])
                    = {Outcome(gen[1], Undefined, FALSE)}

\* C2 happens: an abort at the far tick, below which the inputs hold a
\* smaller timestamp, on a generator whose getNodeSpec() gives a string
C2_Witness ==
    /\ call.op = "generateOrAbortCore"
    /\ result = Undefined
    /\ CallTs.mag = FarTick
    /\ getNodeSpec(gen[1]).kind = "string"

\* the latest call had valid arguments: 0 < t <= MAX_TIMESTAMP and
\* 0 <= a <= 0xff_ffff_ffff
ValidCall ==
    /\ ~argumentsThrow(CallTs, CallAllowance)
    /\ WLeq(CallTs.mag, MAX_TIMESTAMP)

\* t + a of the latest call
CallLimit == WAdd(CallTs.mag, CallAllowance.mag)

\* the counter part of the prevNodeCtr the latest call found
PreCounter == BitAnd(call.pre.prevNodeCtr, counterMask(call.pre))

\* the nodeCtr values a renewal may produce for the generator of the call
FreshNodeCtrs ==
    { BitOr(ShiftLeft(hist[1].nodeId, call.pre.counterSize), ToInt32(c)) :
        c \in renew(call.pre.counterMode, call.pre.counterSize) }

\* C3 as stated: with valid t and a, generateOrAbortCore returns undefined
\* exactly when t + a < prevTimestamp, and returns an ID when
\* t + a = prevTimestamp.
C3_Original ==
    (call.op = "generateOrAbortCore" /\ ValidCall) =>
        /\ (result = Undefined) <=> WLess(CallLimit, call.pre.prevTimestamp)
        /\ CallLimit = call.pre.prevTimestamp => result.kind = "id"

\* C3 amended: with valid t and a, generateOrAbortCore returns undefined
\* exactly when t + a < prevTimestamp; when t + a = prevTimestamp it
\* returns an ID, or throws a RangeError in case the timestamp of that ID
\* would exceed MAX_TIMESTAMP (prevTimestamp above it, or equal to it with
\* the counter all ones).
C3_UndefinedExactlyBelowAllowance ==
    (call.op = "generateOrAbortCore" /\ ValidCall) =>
        /\ (result = Undefined) <=> WLess(CallLimit, call.pre.prevTimestamp)
        /\ CallLimit = call.pre.prevTimestamp =>
              IF \/ WLess(MAX_TIMESTAMP, call.pre.prevTimestamp)
                 \/ /\ call.pre.prevTimestamp = MAX_TIMESTAMP
                    /\ PreCounter = counterMask(call.pre)
              THEN result = Thrown("RangeError")
              ELSE result.kind = "id"

\* C3 happens: the rollback equals a positive allowance and an ID comes back
C3_Witness ==
    /\ call.op = "generateOrAbortCore"
    /\ ValidCall
    /\ CallAllowance.mag # <<>>
    /\ CallLimit = call.pre.prevTimestamp
    /\ result.kind = "id"

\* C4 as stated: a Core call with t <= prevTimestamp <= t + a returns an ID
\* with the previous timestamp and the previous nodeCtr plus one if the
\* counter is below 2^counterSize - 1, and otherwise advances prevTimestamp
\* by one and renews the counter.
C4_SteadyCase ==
    ( /\ CoreCall
      /\ ValidCall
      /\ WLeq(CallTs.mag, call.pre.prevTimestamp)
      /\ WLeq(call.pre.prevTimestamp, CallLimit) ) =>
        IF PreCounter < counterMask(call.pre)
        THEN /\ result.kind = "id"
             /\ timestamp(result.bytes) = call.pre.prevTimestamp
             /\ nodeCtr(result.bytes) = call.pre.prevNodeCtr + 1
        ELSE /\ gen[1].prevTimestamp = WInc(call.pre.prevTimestamp)
             /\ gen[1].prevNodeCtr \in FreshNodeCtrs

\* C5: a Core call with a valid t greater than prevTimestamp (0 on the
\* first call of a generator built from a nodeId) stores t as prevTimestamp
\* and returns an ID of timestamp t, with the configured nodeId in the high
\* bits of nodeCtr and a renewed counter in the low counterSize bits.
C5_TimestampAdvance ==
    (CoreCall /\ ValidCall /\ WLess(call.pre.prevTimestamp, CallTs.mag)) =>
        /\ gen[1].prevTimestamp = CallTs.mag
        /\ result.kind = "id"
        /\ timestamp(result.bytes) = CallTs.mag
        /\ nodeCtr(result.bytes) \in FreshNodeCtrs
        /\ ShiftRight(nodeCtr(result.bytes), call.pre.counterSize)
              = hist[1].nodeId
        /\ gen[1].prevNodeCtr = nodeCtr(result.bytes)

\* C5 happens: the first call on a generator built from a nodeId
C5_Witness ==
    /\ CoreCall
    /\ ValidCall
    /\ call.pre.prevTimestamp = <<>>
    /\ hist[1].nodePrev.kind = "none"
    /\ call.preHist.count = 0
    /\ result.kind = "id"

\* C6 as stated: generateOrResetCore called with t + a < prevTimestamp
\* returns an ID of timestamp t with the configured nodeId that compares
\* less than the ID returned immediately before; prevTimestamp is t
\* afterwards.
C6_ResetGoesBack ==
    ( /\ call.op = "generateOrResetCore"
      /\ ValidCall
      /\ WLess(CallLimit, call.pre.prevTimestamp) ) =>
        /\ result.kind = "id"
        /\ timestamp(result.bytes) = CallTs.mag
        /\ ShiftRight(nodeCtr(result.bytes), call.pre.counterSize)
              = hist[1].nodeId
        /\ call.preHist.lastId.kind = "id" =>
              compareTo(result.bytes, call.preHist.lastId.bytes) < 0
        /\ gen[1].prevTimestamp = CallTs.mag

\* C7: generateOrResetCore does not return undefined; it goes back to an
\* earlier timestamp only where generateOrAbortCore with the same arguments
\* would return undefined, and otherwise does what generateOrAbortCore may
\* do: the same object afterwards and the same result.
C7_ResetFollowsAbort ==
    /\ call.op = "generateOrResetCore" =>
          LET abort == generateOrAbortCore(call.pre, call.unixTsMs,
                                           call.rollbackAllowance)
              back  == WLess(gen[1].prevTimestamp, call.pre.prevTimestamp)
          IN  /\ result # Undefined
              /\ back <=> Outcome(call.pre, Undefined, FALSE) \in abort
              /\ back <=> call.reset
              /\ ~back => Outcome(gen[1], result, FALSE) \in abort
    /\ \A in \in CoreInputs :
          { o \in generateOrResetCore(gen[1], in[1], in[2]) : ~o.reset }
             = { o \in generateOrAbortCore(gen[1], in[1], in[2]) :
                    o.result # Undefined }

\* C7 happens: generateOrResetCore returns an ID for a timestamp behind the
\* stored one without resetting, as generateOrAbortCore would
C7_Witness ==
    /\ call.op = "generateOrResetCore"
    /\ ValidCall
    /\ WLess(CallTs.mag, call.pre.prevTimestamp)
    /\ ~call.reset
    /\ result.kind = "id"

\* C8: whatever calls were made, getNodeId() and getNodeIdSize() return
\* what the generator was built with, and every ID returned has the nodeId
\* above the counterSize counter bits of its nodeCtr.
C8_NodeIdPreserved ==
    /\ getNodeId(gen[1]) = hist[1].nodeId
    /\ getNodeIdSize(gen[1]) = hist[1].nodeIdSize
    /\ result.kind = "id" =>
          ShiftRight(nodeCtr(result.bytes), gen[1].counterSize)
             = hist[1].nodeId

\* C8 happens: after a reset, a counter overflow advances the timestamp and
\* the ID returned still carries the nodeId
C8_Witness ==
    /\ CoreCall
    /\ call.preHist.everReset
    /\ PreCounter = counterMask(call.pre)
    /\ gen[1].prevTimestamp = WInc(call.pre.prevTimestamp)
    /\ result.kind = "id"

\* C10 as stated: generateOrAbortCore and generateOrResetCore throw a
\* RangeError whenever t <= 0, t > MAX_TIMESTAMP, a < 0 or
\* a > 0xff_ffff_ffff.
C10_RangeErrors ==
    ( /\ CoreCall
      /\ \/ argumentsThrow(CallTs, CallAllowance)
         \/ WLess(MAX_TIMESTAMP, CallTs.mag) ) =>
        result = Thrown("RangeError")

\* C9: the IDs produced by generators of one nodeIdSize and different
\* nodeIds are pairwise distinct: an ID one generator returns differs from
\* every ID the other has returned, whatever the timestamps and the
\* methods, the reset variants included.
C9_DistinctAcrossGenerators ==
    \A g \in {1, 2} :
       LET other == hist[3 - g]
       IN  /\ (hist[g].sample.kind = "id" /\ other.sample.kind = "id") =>
                 hist[g].sample.bytes # other.sample.bytes
           /\ (call.g = g /\ result.kind = "id") =>
                 /\ other.sample.kind = "id" =>
                       result.bytes # other.sample.bytes
                 /\ other.lastId.kind = "id" =>
                       result.bytes # other.lastId.bytes

\* C9 happens: after a reset, the two generators have returned IDs of one
\* timestamp and one counter value
C9_Witness ==
    /\ hist[1].sample.kind = "id"
    /\ hist[2].sample.kind = "id"
    /\ hist[1].everReset
    /\ timestamp(hist[1].sample.bytes) = timestamp(hist[2].sample.bytes)
    /\ BitAnd(nodeCtr(hist[1].sample.bytes), counterMask(gen[1]))
          = BitAnd(nodeCtr(hist[2].sample.bytes), counterMask(gen[2]))


\* the latest call ran renewNodeCtr(): the timestamp advanced, the counter
\* was full within the allowance, or generateOrResetCore reset the generator
CallRenewed ==
    /\ CoreCall
    /\ ~argumentsThrow(CallTs, CallAllowance)
    /\ \/ WLess(call.pre.prevTimestamp, CallTs.mag)
       \/ /\ WLeq(call.pre.prevTimestamp, CallLimit)
          /\ PreCounter = counterMask(call.pre)
       \/ /\ call.op = "generateOrResetCore"
          /\ WLess(CallLimit, call.pre.prevTimestamp)

\* C11: when the counter mode's renew() returns a value outside of
\* [0, 2^counterSize), too large or negative, the generation call that ran
\* the renewal throws an error and returns no ID.
C11_RenewalOutOfRangeThrows ==
    (CallRenewed /\ call.pre.counterMode = ContractBreakingCounterMode) =>
        result.kind \in {"Error", "RangeError"}

\* the counterMode argument the generator of SpecDefault was built with
BuiltWith ==
    (CHOOSE c \in DefaultConfigs :
        c.nodeSpec.nodeIdSize = hist[1].nodeIdSize).counterMode

\* the overflow guard size the claim gives that generator
ClaimedGuard ==
    IF BuiltWith = NoCounterMode
    THEN (IF call.pre.counterSize <= 4 THEN 1 ELSE 0)
    ELSE BuiltWith.overflowGuardSize

\* the counter part of the ID the latest call returned
ResultCounter == BitAnd(nodeCtr(result.bytes), counterMask(call.pre))

\* C12: DefaultCounterMode(g).renew(counterSize) returns an integer in
\* [0, 2^max(0, counterSize - g)); a generator built without a counter mode
\* uses g = 1 when counterSize <= 4 and g = 0 otherwise, so that every
\* counter it freshly initialises lies in that range.
C12_DefaultCountersInRange ==
    /\ \A cs \in 1..MaxCounterSize, g \in 0..2 :
          \A c \in renew(DefaultCounterMode(g), cs) :
             /\ ~c.neg
             /\ WLess(c.mag, WFromNat(Pow2(Max(0, cs - g))))
    /\ (CallRenewed /\ result.kind = "id") =>
          ResultCounter < Pow2(Max(0, call.pre.counterSize - ClaimedGuard))

\* C12 happens: a generator built without a counter mode, of counterSize 4,
\* renews its counter after an overflow and draws 7, the largest value
\* its guard leaves
C12_Witness ==
    /\ CallRenewed
    /\ result.kind = "id"
    /\ BuiltWith = NoCounterMode
    /\ call.pre.counterSize = 4
    /\ PreCounter = counterMask(call.pre)
    /\ ResultCounter = 7

\* 256 * id.timestamp of the ID the latest call returned, in milliseconds
ResultMs == WNorm(Append(timestamp(result.bytes), 0))

\* unixTsMs + rollbackAllowance of the latest call, in milliseconds
CallLimitMs == WAdd(call.unixTsMs.mag, call.rollbackAllowance.mag)

\* the latest call returned an ID under a positive rollbackAllowance
IdUnderAllowance ==
    /\ CoreCall
    /\ result.kind = "id"
    /\ ~IsNonPositive(call.rollbackAllowance)

\* the latest call found the counter full within the allowance
CallOverflowed ==
    /\ ~argumentsThrow(CallTs, CallAllowance)
    /\ WLeq(CallTs.mag, call.pre.prevTimestamp)
    /\ WLeq(call.pre.prevTimestamp, CallLimit)
    /\ PreCounter = counterMask(call.pre)

\* C13 as stated: every ID returned by a Core method called with a positive
\* rollbackAllowance has 256 * id.timestamp - unixTsMs < rollbackAllowance.
C13_Original ==
    IdUnderAllowance => WLess(ResultMs, CallLimitMs)

\* C13 amended: every ID returned by a Core method called with a positive
\* rollbackAllowance has 256 * id.timestamp - unixTsMs <= rollbackAllowance,
\* or <= rollbackAllowance + 256 when the call overflowed the counter.
C13_AheadByAllowance ==
    IdUnderAllowance =>
        IF CallOverflowed
        THEN WLeq(ResultMs, WAdd(CallLimitMs, <<1, 0>>))
        ELSE WLeq(ResultMs, CallLimitMs)

\* C13 happens: a call with a positive allowance overflows the counter and
\* returns an ID that is ahead of unixTsMs by more than the allowance
C13_Witness ==
    /\ IdUnderAllowance
    /\ CallOverflowed
    /\ WLess(CallLimitMs, ResultMs)

\* a generateOrSleep() or generateOrAwait() call has not returned yet
Waiting == spin # 0 \/ pending[1] > 0

\* the wall clock is at a tick t with t + 39 >= prevTimestamp
CaughtUp ==
    WLeq(gen[1].prevTimestamp,
         WAdd(TruncDiv256(clock).mag, TruncDiv256(DEFAULT_ROLLBACK_ALLOWANCE).mag))

\* the latest step was an attempt of generateOrSleep() or generateOrAwait()
WaitingCall == call.op \in {"generateOrSleep", "generateOrAwait"}

\* what the generate() of that attempt may have returned
AttemptResults == { o.result : o \in generate(call.pre, call.unixTsMs) }

\* every attempt that gets undefined from generate() goes on waiting, and
\* the first one that does not hands back the ID of that generate()
FirstIdReturned ==
    WaitingCall =>
        IF Undefined \in AttemptResults
        THEN result = Pending /\ Waiting
        ELSE result.kind = "id" /\ result \in AttemptResults

\* the latest attempt found the wall clock at a tick t with
\* t + 39 >= prevTimestamp
AttemptCaughtUp ==
    /\ WaitingCall
    /\ WLeq(call.pre.prevTimestamp,
            WAdd(CallTs.mag, TruncDiv256(DEFAULT_ROLLBACK_ALLOWANCE).mag))

C14_ReachedBetweenAttempts ==
    /\ WaitingCall
    /\ Waiting
    /\ result = Pending
    /\ CaughtUp

AttemptBehind ==
    /\ WaitingCall
    /\ WLess(WAdd(CallTs.mag, TruncDiv256(DEFAULT_ROLLBACK_ALLOWANCE).mag),
             call.pre.prevTimestamp)

\* C15: while the wall clock stays significantly behind the stored
\* timestamp, generateOrSleep() and generateOrAwait() do not return, do not
\* reset the generator and leave prevTimestamp and prevNodeCtr as they
\* are; the wait goes on for as long as the clock stays behind.
C15_WaitsWhileBehind ==
    /\ [](AttemptBehind =>
            /\ result = Pending
            /\ Waiting
            /\ ~call.reset
            /\ gen[1].prevTimestamp = call.pre.prevTimestamp
            /\ gen[1].prevNodeCtr = call.pre.prevNodeCtr)
    /\ []((Waiting /\ []~CaughtUp) => []Waiting)

\* C15 happens: the busy loop of generateOrSleep() takes another turn
\* under a wall clock that is still behind, and goes on
C15_Witness ==
    /\ call.op = "generateOrSleep"
    /\ call.preSpin = 1
    /\ AttemptBehind
    /\ spin = 1

\* the latest step was new Scru64Generator(nodeSpec) with an object that
\* has a nodeId or a nodePrev
NewFromObject ==
    /\ call.op = "new"
    /\ ~IsString(call.nodeSpec)
    /\ \/ "nodeId" \in DOMAIN call.nodeSpec
       \/ "nodePrev" \in DOMAIN call.nodeSpec

\* nodeIdSize is an integer in [1, 23]
NodeIdSizeValid(nodeSpec) ==
    /\ IsInteger(nodeSpec, "nodeIdSize")
    /\ nodeSpec.nodeIdSize >= 1
    /\ nodeSpec.nodeIdSize <= 23

\* nodeId is an integer in [0, 2^nodeIdSize)
NodeIdValid(nodeSpec) ==
    /\ IsInteger(nodeSpec, "nodeId")
    /\ nodeSpec.nodeId >= 0
    /\ nodeSpec.nodeId < Pow2(nodeSpec.nodeIdSize)

\* C18: new Scru64Generator(object) throws a RangeError unless nodeIdSize
\* is an integer in [1, 23] and, for {nodeId, nodeIdSize}, nodeId is an
\* integer in [0, 2^nodeIdSize); a generator built from {nodeId,
\* nodeIdSize} has getNodeId() = nodeId, getNodeIdSize() = nodeIdSize, the
\* counter 0 and prevTimestamp 0.
C18_ObjectSpecChecked ==
    NewFromObject =>
        LET nodeSpec == call.nodeSpec
            valid == /\ NodeIdSizeValid(nodeSpec)
                     /\ "nodePrev" \notin DOMAIN nodeSpec => NodeIdValid(nodeSpec)
        IN  /\ ~valid => result = Thrown("RangeError")
            /\ valid => result = Constructed
            /\ (valid /\ "nodePrev" \notin DOMAIN nodeSpec) =>
                  /\ getNodeId(gen[1]) = nodeSpec.nodeId
                  /\ getNodeIdSize(gen[1]) = nodeSpec.nodeIdSize
                  /\ gen[1].prevNodeCtr % Pow2(24 - nodeSpec.nodeIdSize) = 0
                  /\ gen[1].prevTimestamp = <<>>

\* C18 happens: a generator is built from the largest nodeId of 23 bits
C18_Witness ==
    /\ NewFromObject
    /\ result = Constructed
    /\ call.nodeSpec = [nodeId |-> 8388607, nodeIdSize |-> 23]

\* the nodeCtr of a Scru64Id, read from its last three bytes
LowBytes(bytes) == bytes[6] * 65536 + bytes[7] * 256 + bytes[8]

\* C19: a generator built from {nodePrev, nodeIdSize} has getNodeId() equal
\* to the top nodeIdSize bits of nodePrev.nodeCtr, its counter equal to the
\* remaining low bits and prevTimestamp equal to nodePrev.timestamp;
\* getNodePrev(), when defined, equals nodePrev.
C19_BuiltFromNodePrev ==
    ( /\ NewFromObject
      /\ "nodePrev" \in DOMAIN call.nodeSpec
      /\ result = Constructed ) =>
        LET nodePrev == call.nodeSpec.nodePrev
            low == Pow2(24 - call.nodeSpec.nodeIdSize)
        IN  /\ getNodeId(gen[1]) = LowBytes(nodePrev) \div low
            /\ gen[1].prevNodeCtr % low = LowBytes(nodePrev) % low
            /\ gen[1].prevTimestamp = WNorm(SubSeq(nodePrev, 1, 5))
            /\ getNodePrev(gen[1]) # Undefined =>
                  getNodePrev(gen[1]) = Returned(nodePrev)

\* C19 happens: a generator is built from an ID of 2020 under nodeIdSize 8,
\* and its getNodePrev() is defined
C19_Witness ==
    /\ NewFromObject
    /\ result = Constructed
    /\ call.nodeSpec =
          [nodePrev |-> <<1, 134, 213, 43, 190, 42, 99, 90>>, nodeIdSize |-> 8]
    /\ getNodePrev(gen[1]).kind = "id"

\* the latest step was new Scru64Generator(nodeSpec) with a string
NewFromString == call.op = "new" /\ IsString(call.nodeSpec)

DecimalChars == {"0", "1", "2", "3", "4", "5", "6", "7", "8", "9"}

HexChars ==
    DecimalChars \cup
    {"a", "b", "c", "d", "e", "f", "A", "B", "C", "D", "E", "F"}

Base36Chars == {DIGITS[i] : i \in 1..36} \cup {UPPER[i] : i \in 1..26}

\* every character of text is in the set
Over(text, chars) == \A i \in 1..Len(text) : text[i] \in chars

\* 1-8 decimal digits
DecimalNodeId(text) == Len(text) \in 1..8 /\ Over(text, DecimalChars)

\* 0x and 1-6 hex digits
HexNodeId(text) ==
    /\ Len(text) \in 3..8
    /\ SubSeq(text, 1, 2) \in {<<"0", "x">>, <<"0", "X">>}
    /\ Over(SubSeq(text, 3, Len(text)), HexChars)

\* 12 Base36 characters
NodePrevString(text) == Len(text) = 12 /\ Over(text, Base36Chars)

\* the part of text before its first "/" and the part after it
BeforeSlash(text) ==
    SubSeq(text, 1, (CHOOSE k \in 1..Len(text) :
                        text[k] = "/" /\ \A j \in 1..(k - 1) : text[j] # "/") - 1)
AfterSlash(text) == SubSeq(text, Len(BeforeSlash(text)) + 2, Len(text))

\* the whole text is (1-8 decimal digits | 0x + 1-6 hex digits | 12 Base36
\* characters) + "/" + 1-3 decimal digits
InGrammar(text) ==
    /\ \E k \in 1..Len(text) : text[k] = "/"
    /\ DecimalNodeId(BeforeSlash(text)) \/ HexNodeId(BeforeSlash(text))
          \/ NodePrevString(BeforeSlash(text))
    /\ Len(AfterSlash(text)) \in 1..3
    /\ Over(AfterSlash(text), DecimalChars)

\* the digit a character stands for
DigitOf(ch) ==
    CHOOSE d \in 0..35 : ch = DIGITS[d + 1] \/ (d >= 10 /\ ch = UPPER[d - 9])

RECURSIVE Numeral(_, _)
\* the number the digits of text stand for in the base
Numeral(text, base) ==
    IF text = <<>> THEN 0
    ELSE base * Numeral(SubSeq(text, 1, Len(text) - 1), base)
         + DigitOf(text[Len(text)])

\* the node ID a text of the grammar gives, where it gives one
NodeIdIn(text) ==
    IF HexNodeId(BeforeSlash(text))
    THEN Numeral(SubSeq(BeforeSlash(text), 3, Len(BeforeSlash(text))), 16)
    ELSE Numeral(BeforeSlash(text), 10)

\* a text of the grammar with nodeIdSize in [1, 23] and the node ID
\* fitting nodeIdSize bits
Acceptable(text) ==
    /\ InGrammar(text)
    /\ Numeral(AfterSlash(text), 10) \in 1..23
    /\ \/ NodePrevString(BeforeSlash(text))
       \/ NodeIdIn(text) < Pow2(Numeral(AfterSlash(text), 10))

\* C20: new Scru64Generator(string) accepts the string if and only if the
\* whole string is (1-8 decimal digits | 0x + 1-6 hex digits | 12 Base36
\* characters) + "/" + 1-3 decimal digits with nodeIdSize in [1, 23] and
\* the node ID fitting nodeIdSize bits; every string that does not match
\* the grammar is rejected with a SyntaxError.
C20_StringSpecGrammar ==
    NewFromString =>
        /\ (result = Constructed) <=> Acceptable(call.nodeSpec.text)
        /\ ~InGrammar(call.nodeSpec.text) => result = Thrown("SyntaxError")

\* C20 happens: a generator is built from "0X2A/8", and "42/8 " with its
\* trailing space is among the strings tried
C20_Witness ==
    /\ NewFromString
    /\ result = Constructed
    /\ call.nodeSpec.text = <<"0", "X", "2", "A", "/", "8">>
    /\ getNodeId(gen[1]) = 42
    /\ Text(<<"4", "2", "/", "8", " ">>) \in NodeSpecStrings

(***************************************************************************)
(* The global functions and the global generator                           *)
(***************************************************************************)

\* the place of a character in the order of character codes
CharRank(ch) == CHOOSE d \in 0..35 : ch = DIGITS[d + 1]

RECURSIVE StringLess(_, _)
\* s < t as strings are compared: at the first place where they differ, or
\* s being a proper prefix of t
StringLess(s, t) ==
    IF t = <<>> THEN FALSE
    ELSE IF s = <<>> THEN TRUE
    ELSE IF s[1] # t[1] THEN CharRank(s[1]) < CharRank(t[1])
    ELSE StringLess(Tail(s), Tail(t))

\* the latest call was one of the global string functions
StringCall == call.op \in {"scru64StringSync", "scru64String"}

\* the latest call handed a string to its caller
StringReturned == StringCall /\ result.kind = "string"

\* the greatest ID, and the latest, that the global generator had returned
\* when the latest call was made
GreatestBefore ==
    IF call.pre = Undefined THEN NoResult ELSE call.preHist.maxId

LatestBefore ==
    IF call.pre = Undefined THEN NoResult ELSE call.preHist.lastId

\* C16: a string that scru64StringSync() or an awaited scru64String() returns
\* has 12 characters and is greater, as a string, than the string of every
\* ID the global functions returned before it, whatever the wall clock does
C16_GlobalStringsIncrease ==
    StringReturned =>
        /\ Len(result.text) = 12
        /\ GreatestBefore.kind = "id" =>
              StringLess(toString(GreatestBefore.bytes), result.text)
        /\ LatestBefore.kind = "id" =>
              StringLess(toString(LatestBefore.bytes), result.text)

\* a second string was returned while the wall clock stood behind the tick
\* of the first
C16_Witness ==
    /\ StringReturned
    /\ LatestBefore.kind = "id"
    /\ call.unixTsMs \in {Ms(<<>>, 255), Ms(<<1>>, 255)}
    /\ WLess(<<1>>, timestamp(LatestBefore.bytes))

\* the node configuration of a generator
Configuration(this) ==
    [nodeId |-> getNodeId(this), nodeIdSize |-> getNodeIdSize(this),
     counterMode |-> this.counterMode]

\* the latest call was one of the functions that go through
\* getGlobalGenerator()
FirstUseCall ==
    call.op \in {"GlobalGenerator.generate", "GlobalGenerator.generateOrSleep",
                 "GlobalGenerator.generateOrAwait", "scru64Sync", "scru64",
                 "scru64StringSync", "scru64String",
                 "GlobalGenerator.getNodeId", "GlobalGenerator.getNodePrev",
                 "GlobalGenerator.getNodeIdSize",
                 "GlobalGenerator.getNodeSpec"}

\* C17: initialize() returns true and installs the generator built from its
\* argument only when there was none, and returns false and changes nothing
\* when there was one; a generating function or a getter finding no
\* generator and no SCRU64_NODE_SPEC throws an Error and there is still no
\* generator; and a generator, once there, is never replaced by one of
\* another configuration
C17_GlobalCreatedOnce ==
    /\ [](call.op = "initialize" =>
            IF call.pre = Undefined
            THEN \/ /\ result = Bool(TRUE)
                    /\ gen = <<constructor(call.nodeSpec, NoCounterMode)>>
                 \/ /\ result.kind \in {"RangeError", "SyntaxError"}
                    /\ constructorThrows(call.nodeSpec)
                    /\ gen = <<>>
            ELSE /\ result = Bool(FALSE)
                 /\ gen = <<call.pre>>
                 /\ hist = <<call.preHist>>)
    /\ []((FirstUseCall /\ call.pre = Undefined /\ SCRU64_NODE_SPEC = Undefined)
            => result = Thrown("Error") /\ gen = <<>>)
    /\ [][gen # <<>> =>
            /\ gen' # <<>>
            /\ Configuration(gen'[1]) = Configuration(gen[1])]_vars

\* initialize() was called on a generator built from SCRU64_NODE_SPEC that
\* had returned an ID
C17_Witness ==
    /\ call.op = "initialize"
    /\ call.pre # Undefined
    /\ call.preHist.lastId.kind = "id"
    /\ call.pre.counterSize = 2
    /\ result = Bool(FALSE)

(***************************************************************************)
(* Node spec strings with numbers out of range, and what getNodeSpec() and *)
(* getNodePrev() give                                                      *)
(***************************************************************************)

\* the latest step was new Scru64Generator(string) with a string of the
\* grammar whose nodeIdSize is outside [1, 23] or whose node ID does not fit
NewOutOfRange ==
    /\ NewFromString
    /\ InGrammar(call.nodeSpec.text)
    /\ ~Acceptable(call.nodeSpec.text)

\* C21 as stated: a node spec string of the grammar with a number out of
\* range fails with a RangeError
C21_Original == NewOutOfRange => result = Thrown("RangeError")

\* C21: a node spec string of the grammar with nodeIdSize outside [1, 23] or
\* a node ID that does not fit nodeIdSize bits fails with a SyntaxError, the
\* error of every rejected string
C21_OutOfRangeIsSyntaxError == NewOutOfRange => result = Thrown("SyntaxError")

\* "1024/8" was rejected, "0/0", "0/24" and "8/1" being among the strings
C21_Witness ==
    /\ NewOutOfRange
    /\ call.nodeSpec.text = <<"1", "0", "2", "4", "/", "8">>
    /\ result = Thrown("SyntaxError")
    /\ gen = <<>>
    /\ { Text(<<"0", "/", "0">>), Text(<<"0", "/", "2", "4">>),
         Text(<<"8", "/", "1">>) } \subseteq NodeSpecStrings

\* the latest call was getNodeSpec()
NodeSpecCall == call.op = "getNodeSpec"

\* the generator was built from a node ID: a pair, or a decimal or
\* hexadecimal string
BuiltFromNodeId == hist[1].nodePrev.kind # "id"

\* the most recently generated ID, or the seed if none was generated yet,
\* or nothing
LatestOrSeed ==
    IF hist[1].lastId.kind = "id" THEN hist[1].lastId ELSE hist[1].nodePrev

\* "<12-character ID>/<nodeIdSize>"
IdForm(bytes) ==
    Text(toString(bytes) \o <<"/">> \o Decimal(hist[1].nodeIdSize))

\* "<decimal nodeId>/<nodeIdSize>"
NodeIdForm ==
    Text(Decimal(hist[1].nodeId) \o <<"/">> \o Decimal(hist[1].nodeIdSize))

\* the stored timestamp and node counter are not those of the most recently
\* generated ID, of the seed, or of the node ID the generator was built from
Adrift ==
    IF LatestOrSeed.kind = "id"
    THEN \/ gen[1].prevTimestamp # timestamp(LatestOrSeed.bytes)
         \/ gen[1].prevNodeCtr # nodeCtr(LatestOrSeed.bytes)
    ELSE \/ gen[1].prevTimestamp # <<>>
         \/ gen[1].prevNodeCtr # ShiftLeft(hist[1].nodeId, gen[1].counterSize)

\* C22 as stated: getNodeSpec() of a generator built from a node ID renders
\* "<decimal nodeId>/<nodeIdSize>", and of one built from a nodePrev renders
\* "<12-character ID>/<nodeIdSize>" with the most recently generated ID, or
\* the seed
C22_Original ==
    NodeSpecCall =>
        IF BuiltFromNodeId THEN result = NodeIdForm
        ELSE result = IdForm(LatestOrSeed.bytes)

\* C22: getNodeSpec() renders "<12-character ID>/<nodeIdSize>" with the most
\* recently generated ID, or with the seed if none was generated and the
\* seed has a positive timestamp, and "<decimal nodeId>/<nodeIdSize>" if no
\* ID was generated and there is no such seed; only a generating call that
\* throws leaves other values stored, which getNodeSpec() then renders as an
\* ID, or throws the RangeError of fromParts
C22_NodeSpecOfState ==
    /\ [](NodeSpecCall =>
            IF Adrift
            THEN \/ /\ result = Thrown("RangeError")
                    /\ fromPartsThrows(gen[1].prevTimestamp,
                                       gen[1].prevNodeCtr)
                 \/ result = IdForm(fromPartsBytes(gen[1].prevTimestamp,
                                                   gen[1].prevNodeCtr))
            ELSE IF /\ LatestOrSeed.kind = "id"
                    /\ timestamp(LatestOrSeed.bytes) # <<>>
            THEN result = IdForm(LatestOrSeed.bytes)
            ELSE result = NodeIdForm)
    /\ [][(~Adrift /\ Adrift') =>
            /\ CoreCall'
            /\ result'.kind \in {"RangeError", "Error"}]_vars

\* getNodeSpec() rendered the ID that a generator built from the nodePrev
\* string "0u375nxqh5cq/22" had generated
C22_Witness ==
    /\ NodeSpecCall
    /\ hist[1].nodePrev = Returned(<<1, 134, 213, 43, 190, 42, 99, 90>>)
    /\ hist[1].lastId.kind = "id"
    /\ hist[1].lastId # hist[1].nodePrev
    /\ result = IdForm(hist[1].lastId.bytes)

\* getNodeSpec() rendered "42/22" for a generator built from "0x2a/22"
C22_HexRendersDecimal ==
    /\ NodeSpecCall
    /\ call.nodeSpec = Text(<<"0", "x", "2", "a", "/", "2", "2">>)
    /\ result = Text(<<"4", "2", "/", "2", "2">>)

\* getNodeSpec() was called after a generating call had thrown and left its
\* values stored
C22_AfterThrow == NodeSpecCall /\ Adrift /\ result.kind = "string"

\* and threw, the stored values being out of range
C22_ThrowsAfterThrow == NodeSpecCall /\ Adrift /\ result = Thrown("RangeError")

\* the latest call was getNodePrev()
NodePrevCall == call.op = "getNodePrev"

\* C23: at any point in a generator's life, getNodePrev() returns undefined
\* if the generator was built from a node ID (a pair or a string), and
\* returns an ID only if the generator was built with a nodePrev
C23_NodePrevOnlyIfGiven ==
    NodePrevCall =>
        /\ BuiltFromNodeId => result = Undefined
        /\ result.kind = "id" => ~BuiltFromNodeId

\* the latest call was Scru64Id.fromParts(timestamp, nodeCtr)
FromPartsCall == call.op = "fromParts"

\* x is an integer between 0 and the wide natural max
IntegerUpTo(x, max) ==
    /\ "nan" \notin DOMAIN x
    /\ "fraction" \notin DOMAIN x
    /\ x.neg => x.mag = <<>>
    /\ WLeq(x.mag, max)

\* both arguments of the call are integers in their ranges
PartsInRange ==
    /\ IntegerUpTo(call.args[1], MAX_TIMESTAMP)
    /\ IntegerUpTo(call.args[2], <<255, 255, 255>>)

\* the 8 bytes of the big-endian encoding of a wide natural
BigEndian(w) == [i \in 1..8 |-> WByte(w, 8 - i)]

\* timestamp * 2^24 + nodeCtr
Packed(ts, nc) == WAdd(ts \o <<0, 0, 0>>, nc)

\* C24: for an integer timestamp in [0, 282429536480] and an integer nodeCtr
\* in [0, 16777215], fromParts(timestamp, nodeCtr) returns an ID whose
\* timestamp and nodeCtr are the arguments and whose 8 bytes are the
\* big-endian encoding of timestamp * 2^24 + nodeCtr
C24_FromPartsRoundTrip ==
    FromPartsCall /\ PartsInRange =>
        /\ result.kind = "id"
        /\ timestamp(result.bytes) = WNorm(call.args[1].mag)
        /\ nodeCtr(result.bytes) = WToNat(call.args[2].mag)
        /\ result.bytes = BigEndian(Packed(call.args[1].mag, call.args[2].mag))

\* fromParts(2^32, 2^16) returned an ID
C24_Witness ==
    /\ FromPartsCall
    /\ call.args = <<Num(FALSE, <<1, 0, 0, 0, 0>>), Num(FALSE, <<1, 0, 0>>)>>
    /\ result = Returned(<<1, 0, 0, 0, 0, 1, 0, 0>>)

\* the latest call was Scru64Id.fromString(value), this.toString()
FromStringCall == call.op = "fromString"

ToStringCall == call.op = "toString"

\* ch is one of 0-9, a-z, A-Z
IsAlphanumeric(ch) ==
    \/ \E i \in 1..36 : DIGITS[i] = ch
    \/ \E i \in 1..26 : UPPER[i] = ch

\* s has 12 characters, all of 0-9, a-z, A-Z
TwelveAlphanumerics(s) ==
    Len(s) = 12 /\ \A i \in 1..12 : IsAlphanumeric(s[i])

\* s.toLowerCase() and s.toUpperCase() for a string of ASCII characters
toLowerCase(s) ==
    [k \in 1..Len(s) |->
        IF \E i \in 1..26 : UPPER[i] = s[k]
        THEN DIGITS[(CHOOSE i \in 1..26 : UPPER[i] = s[k]) + 10]
        ELSE s[k]]

toUpperCase(s) ==
    [k \in 1..Len(s) |->
        IF \E i \in 11..36 : DIGITS[i] = s[k]
        THEN UPPER[(CHOOSE i \in 11..36 : DIGITS[i] = s[k]) - 10]
        ELSE s[k]]

\* C25: for a string s of 12 characters over 0-9, a-z, A-Z,
\* fromString(s).toString() is s in lower case; and for a valid ID x,
\* fromString(x.toString()) is x, also when the string is upper-cased first
C25_StringRoundTrip ==
    /\ FromStringCall /\ TwelveAlphanumerics(call.args[1]) =>
          /\ result.kind = "id"
          /\ toString(result.bytes) = toLowerCase(call.args[1])
    /\ ToStringCall =>
          /\ result.kind = "string"
          /\ fromString(result.text) = Returned(call.args[1])
          /\ fromString(toUpperCase(result.text)) = Returned(call.args[1])

\* fromString("0u375NxQh5Cq") returned the ID 0x0186d52bbe2a635a, whose
\* string is "0u375nxqh5cq"
C25_Witness ==
    /\ FromStringCall
    /\ call.args[1] = <<"0", "u", "3", "7", "5", "N", "x", "Q", "h", "5", "C", "q">>
    /\ result = Returned(<<1, 134, 213, 43, 190, 42, 99, 90>>)
    /\ toString(result.bytes) = <<"0", "u", "3", "7", "5", "n", "x", "q", "h", "5", "c", "q">>

\* toString() of the greatest ID returned "zzzzzzzzzzzz"
C25_GreatestString ==
    /\ ToStringCall
    /\ call.args[1] = MAX_SCRU64_BYTES
    /\ result = Text(<<"z", "z", "z", "z", "z", "z", "z", "z", "z", "z", "z", "z">>)

\* the latest call was Scru64Id.ofInner(bytes)
OfInnerCall == call.op = "ofInner"

\* 36^12 - 1 as a wide natural: 0x41c21cb8e0ffffff
MAX_SCRU64_INT == <<65, 194, 28, 184, 224, 255, 255, 255>>

\* C26: ofInner(b) throws a RangeError if and only if b does not have
\* exactly 8 bytes or its big-endian unsigned value exceeds 36^12 - 1;
\* otherwise the bytes of the ID it returns are b
C26_OfInnerRange ==
    OfInnerCall =>
        IF Len(call.args[1]) # 8 \/ WLess(MAX_SCRU64_INT, WNorm(call.args[1]))
        THEN result = Thrown("RangeError")
        ELSE result = Returned(call.args[1])

\* ofInner accepted an array with a byte above the byte of the maximum at
\* the same place: 0x4100ff0000000000
C26_Witness ==
    /\ OfInnerCall
    /\ call.args[1] = <<65, 0, 255, 0, 0, 0, 0, 0>>
    /\ result = Returned(call.args[1])

\* ofInner rejected 36^12
C26_RejectsNext ==
    /\ OfInnerCall
    /\ call.args[1] = <<65, 194, 28, 184, 225, 0, 0, 0>>
    /\ result = Thrown("RangeError")

\* ofInner accepted 36^12 - 1
C26_AcceptsGreatest ==
    /\ OfInnerCall
    /\ call.args[1] = MAX_SCRU64_BYTES
    /\ result = Returned(MAX_SCRU64_BYTES)

\* C27: fromString(s) throws a SyntaxError if and only if s does not have
\* exactly 12 characters or has a character outside 0-9, a-z, A-Z; every
\* string it accepts yields an ID of value at most 36^12 - 1
C27_FromStringSyntax ==
    FromStringCall =>
        IF TwelveAlphanumerics(call.args[1])
        THEN /\ result.kind = "id"
             /\ Len(result.bytes) = 8
             /\ WLeq(WNorm(result.bytes), MAX_SCRU64_INT)
        ELSE result = Thrown("SyntaxError")

\* fromString rejected 12 characters of which the last is not ASCII
C27_Witness ==
    /\ FromStringCall
    /\ call.args[1] = <<"0", "u", "3", "7", "5", "n", "x", "q", "h", "5", "c", "U+00E9">>
    /\ result = Thrown("SyntaxError")

\* fromString rejected 13 characters of which the first 12 are valid
C27_RejectsLonger ==
    /\ FromStringCall
    /\ call.args[1] = <<"0", "u", "3", "7", "5", "n", "x", "q", "h", "5", "c", "q", "0">>
    /\ result = Thrown("SyntaxError")

\* fromString("ZZZZZZZZZZZZ") returned the greatest ID
C27_AcceptsGreatest ==
    /\ FromStringCall
    /\ call.args[1] = <<"Z", "Z", "Z", "Z", "Z", "Z", "Z", "Z", "Z", "Z", "Z", "Z">>
    /\ result = Returned(MAX_SCRU64_BYTES)

\* C28: fromParts(timestamp, nodeCtr) throws a RangeError if and only if
\* timestamp is not an integer in [0, 282429536480] or nodeCtr is not an
\* integer in [0, 16777215]; every pair it accepts yields an ID of value at
\* most 36^12 - 1, for which the ID needs no further check
C28_FromPartsRange ==
    FromPartsCall =>
        IF PartsInRange
        THEN /\ result.kind = "id"
             /\ WLeq(WNorm(result.bytes), MAX_SCRU64_INT)
             /\ ofInner(result.bytes) = result
        ELSE result = Thrown("RangeError")

\* fromParts(282429536480, 16777215) returned the greatest ID, 36^12 - 1
C28_Witness ==
    /\ FromPartsCall
    /\ call.args = <<Num(FALSE, MAX_TIMESTAMP), Num(FALSE, <<255, 255, 255>>)>>
    /\ result = Returned(MAX_SCRU64_BYTES)

\* fromParts rejected a timestamp of 0.5 given with a valid nodeCtr
C28_RejectsFraction ==
    /\ FromPartsCall
    /\ call.args = <<Fraction(FALSE, <<>>), Num(FALSE, <<1>>)>>
    /\ result = Thrown("RangeError")

\* fromParts rejected a nodeCtr of 2^24 given with a valid timestamp
C28_RejectsNodeCtr ==
    /\ FromPartsCall
    /\ call.args = <<Num(FALSE, <<1>>), Num(FALSE, <<1, 0, 0, 0>>)>>
    /\ result = Thrown("RangeError")

\* the latest call was Scru64Id.fromBigInt(value), this.toBigInt()
FromBigIntCall == call.op = "fromBigInt"

ToBigIntCall == call.op = "toBigInt"

\* the bigint v is negative or greater than 36^12 - 1
BigIntOutOfRange(v) ==
    \/ v.neg /\ v.mag # <<>>
    \/ WLess(MAX_SCRU64_INT, WNorm(v.mag))

\* C29: fromBigInt(v) throws a RangeError if and only if v is negative or
\* greater than 36^12 - 1, values from 2^64 up included; for an accepted v,
\* fromBigInt(v).toBigInt() is v; and for a valid ID x,
\* fromBigInt(x.toBigInt()) is x
C29_BigIntRange ==
    /\ FromBigIntCall =>
          IF BigIntOutOfRange(call.args[1])
          THEN result = Thrown("RangeError")
          ELSE /\ result.kind = "id"
               /\ toBigInt(result.bytes) = call.args[1]
    /\ ToBigIntCall =>
          /\ result.kind = "bigint"
          /\ fromBigInt(result.value) = Returned(call.args[1])

\* fromBigInt(2^64 + 1), whose low 64 bits are 1, threw a RangeError
C29_Witness ==
    /\ FromBigIntCall
    /\ call.args[1] = Num(FALSE, <<1, 0, 0, 0, 0, 0, 0, 0, 1>>)
    /\ result = Thrown("RangeError")

\* fromBigInt(36^12 - 1) returned the greatest ID
C29_AcceptsGreatest ==
    /\ FromBigIntCall
    /\ call.args[1] = Num(FALSE, MAX_SCRU64_INT)
    /\ result = Returned(MAX_SCRU64_BYTES)

\* toBigInt() of the ID 0x0186d52bbe2a635a returned that number
C29_ToBigInt ==
    /\ ToBigIntCall
    /\ call.args[1] = <<1, 134, 213, 43, 190, 42, 99, 90>>
    /\ result = Value("bigint", Num(FALSE, <<1, 134, 213, 43, 190, 42, 99, 90>>))

\* the latest call was this.compareTo(other), this.equals(other)
CompareToCall == call.op = "compareTo"

EqualsCall == call.op = "equals"

\* the sign of a number
Sign(n) == IF n < 0 THEN -1 ELSE IF n > 0 THEN 1 ELSE 0

\* the sign of the comparison of (a.timestamp, a.nodeCtr) and
\* (b.timestamp, b.nodeCtr) in lexicographic order
PartsSign(a, b) ==
    IF WLess(timestamp(a), timestamp(b)) THEN -1
    ELSE IF WLess(timestamp(b), timestamp(a)) THEN 1
    ELSE IF nodeCtr(a) < nodeCtr(b) THEN -1
    ELSE IF nodeCtr(a) > nodeCtr(b) THEN 1
    ELSE 0

\* the sign of the comparison of a.toString() and b.toString() as strings
StringSign(a, b) ==
    IF StringLess(toString(a), toString(b)) THEN -1
    ELSE IF StringLess(toString(b), toString(a)) THEN 1
    ELSE 0

\* C30: for valid IDs a and b, the sign of a.compareTo(b) is the sign of the
\* comparison of (a.timestamp, a.nodeCtr) and (b.timestamp, b.nodeCtr) in
\* lexicographic order, and also that of the comparison of a.toString() and
\* b.toString(); a.equals(b) holds exactly when compareTo is 0, that is
\* when the 8 bytes, and so the strings, are the same
C30_OrderAgrees ==
    /\ CompareToCall =>
          /\ result.kind = "number"
          /\ Sign(result.value) = PartsSign(call.args[1], call.args[2])
          /\ Sign(result.value) = StringSign(call.args[1], call.args[2])
    /\ EqualsCall =>
          /\ result.kind = "boolean"
          /\ result.value = (compareTo(call.args[1], call.args[2]) = 0)
          /\ result.value = (call.args[1] = call.args[2])
          /\ result.value =
                (toString(call.args[1]) = toString(call.args[2]))

\* compareTo of two IDs that differ in the first byte only returned 1
C30_Witness ==
    /\ CompareToCall
    /\ call.args = << <<1, 0, 0, 0, 0, 0, 0, 1>>, <<0, 0, 0, 0, 0, 0, 0, 1>> >>
    /\ result = Value("number", 1)

\* compareTo of the IDs 9 and 10, whose strings end in 9 and in a,
\* returned -1
C30_DigitBeforeLetter ==
    /\ CompareToCall
    /\ call.args = << <<0, 0, 0, 0, 0, 0, 0, 9>>, <<0, 0, 0, 0, 0, 0, 0, 10>> >>
    /\ result = Value("number", -1)

\* equals returned true, and returned false
C30_Equal ==
    /\ EqualsCall
    /\ call.args[1] = MAX_SCRU64_BYTES
    /\ result = Bool(TRUE)

C30_Unequal ==
    /\ EqualsCall
    /\ call.args = << <<0, 0, 0, 0, 0, 255, 255, 255>>, <<0, 0, 0, 0, 1, 0, 0, 0>> >>
    /\ result = Bool(FALSE)

\* the latest call was this.toJSON()
ToJSONCall == call.op = "toJSON"

RECURSIVE Base36(_, _)
\* the last n digits of the Base36 numeral of the wide natural w, by
\* division of the whole number by 36
Base36(w, n) ==
    IF n = 0 THEN <<>>
    ELSE LET qr == WDivMod(w, 36)
         IN  Append(Base36(qr.quo, n - 1), DIGITS[qr.rem + 1])

\* C31: for a valid ID, toString() and toJSON() return exactly 12 characters
\* of 0-9a-z, the zero-padded Base36 numeral of the 64-bit value of the ID,
\* the most significant digit first
C31_CanonicalString ==
    ToStringCall \/ ToJSONCall =>
        /\ result.kind = "string"
        /\ Len(result.text) = 12
        /\ \A k \in 1..12 : \E d \in 1..36 : result.text[k] = DIGITS[d]
        /\ result.text = Base36(WNorm(call.args[1]), 12)

\* toString() of the ID of the parts (6557084606, 2777946) returned
\* "0u375nxqh5cq"
C31_Witness ==
    /\ ToStringCall
    /\ call.args[1] = fromPartsBytes(<<1, 134, 213, 43, 190>>, 2777946)
    /\ result = Text(<<"0", "u", "3", "7", "5", "n", "x", "q", "h", "5", "c", "q">>)

\* toJSON() of the ID of the parts (0, 0) returned "000000000000"
C31_LeastString ==
    /\ ToJSONCall
    /\ call.args[1] = fromPartsBytes(<<>>, 0)
    /\ result = Text(<<"0", "0", "0", "0", "0", "0", "0", "0", "0", "0", "0", "0">>)

\* toJSON() of the ID of the parts (282429536480, 16777215) returned
\* "zzzzzzzzzzzz"
C31_GreatestJSON ==
    /\ ToJSONCall
    /\ call.args[1] = fromPartsBytes(MAX_TIMESTAMP, MAX_NODE_CTR)
    /\ result = Text(<<"z", "z", "z", "z", "z", "z", "z", "z", "z", "z", "z", "z">>)

\* the timestamps and the nodeCtrs of the IDs toHex() is called on: the
\* least and the greatest of each, the parts (6557084606, 2777946), and
\* values that bring every hexadecimal digit into either half of a byte
HexTimestamps ==
    { <<>>, <<1>>, <<15>>, <<16>>, <<171>>, <<255>>, <<1, 0>>, <<18, 52>>,
      <<205, 239, 0>>, <<1, 134, 213, 43, 190>>, <<58, 188, 222, 240, 9>>,
      MAX_TIMESTAMP }

HexNodeCtrs == { 0, 1, 10, 15, 16, 255, 256, 2777946, 11259375, MAX_NODE_CTR }

HexIds == { fromPartsBytes(ts, nc) : ts \in HexTimestamps, nc \in HexNodeCtrs }

\* the revision of the class that has toHex(), before any call
InitHex == InitId

\* toHex() is called on an ID of HexIds
NextHex == \E this \in HexIds : CallToHex(this)

SpecHex == InitHex /\ [][NextHex]_vars

\* the latest call was this.toHex()
ToHexCall == call.op = "toHex"

RECURSIVE HexValue(_)
\* the wide natural a text of hexadecimal digits stands for, as BigInt
\* reads what follows 0x
HexValue(text) ==
    IF text = <<>> THEN <<>>
    ELSE WNorm(WMulCarry(HexValue(SubSeq(text, 1, Len(text) - 1)), 16,
                         DigitOf(text[Len(text)])))

\* C32: for a valid ID, toHex() returns "0x" followed by exactly 16
\* lower-case hexadecimal digits that denote the 64-bit unsigned value of
\* the ID, so that BigInt(x.toHex()) is the value
C32_HexString ==
    ToHexCall =>
        /\ result.kind = "string"
        /\ Len(result.text) = 18
        /\ SubSeq(result.text, 1, 2) = <<"0", "x">>
        /\ \A k \in 3..18 : \E d \in 1..16 : result.text[k] = DIGITS[d]
        /\ HexValue(SubSeq(result.text, 3, 18)) = WNorm(call.args[1])

\* toHex() of the ID of the parts (6557084606, 2777946) returned
\* "0x0186d52bbe2a635a"
C32_Witness ==
    /\ ToHexCall
    /\ call.args[1] = fromPartsBytes(<<1, 134, 213, 43, 190>>, 2777946)
    /\ result = Text(<<"0", "x", "0", "1", "8", "6", "d", "5", "2", "b", "b", "e", "2", "a", "6", "3", "5", "a">>)

\* the Scru64Id objects there are, and the bytes of one now
Ids == 1..Len(heap.ids)

IdBytes(x) == heap.arrays[heap.ids[x].bytes]

\* the 64-bit value of the Scru64Id x is at most 36^12 - 1
WithinMaximum(x) ==
    Len(IdBytes(x)) = 8 /\ WLeq(WNorm(IdBytes(x)), MAX_SCRU64_INT)

\* C33 as stated: every Scru64Id obtained from a factory holds a value of
\* at most 36^12 - 1 for as long as it exists, also one made by ofInner
\* after the caller writes to the array it passed in
C33_Original == \A x \in Ids : WithinMaximum(x)

\* C33: every Scru64Id obtained from a factory (ofInner, fromString,
\* fromParts, fromBigInt, clone) holds a value of at most 36^12 - 1 for as
\* long as no write was made to the array it refers to nor, for an object
\* obtained from clone(), to the array of the object cloned before the call
C33_ValidUntilWritten ==
    \A x \in Ids : ~hist[x].written => WithinMaximum(x)

\* an object made by ofInner holds 36^12 - 1, its array untouched, while
\* another made by ofInner exceeds 36^12 - 1, the caller having written to
\* its array
C33_Witness ==
    \E x \in Ids, y \in Ids :
        /\ hist[x].made = "ofInner" /\ ~hist[x].written
        /\ IdBytes(x) = MAX_SCRU64_BYTES
        /\ hist[y].made = "ofInner" /\ hist[y].written
        /\ ~WithinMaximum(y)

\* clone() of an object whose array the caller had written to returned an
\* object whose value exceeds 36^12 - 1
C33_CloneOfWritten ==
    /\ call.op = "clone"
    /\ ~WithinMaximum(Len(heap.ids))

\* the latest call was x.clone(), and the object it returned
CloneCall == call.op = "clone"

Cloned == Len(heap.ids)

\* the latest step wrote to the array a
Written(a) == call'.op = "write" /\ call'.args[1] = a

\* C34: x.clone() returns another object, equal to x at the time of the
\* call, with an array of its own: a later write to the array of x (such as
\* the one given to ofInner) does not change the value of the clone, and a
\* write to the array of the clone does not change x
C34_CloneIndependent ==
    /\ [](CloneCall =>
            /\ result = Object(Cloned)
            /\ Cloned # call.args[1]
            /\ equals(IdBytes(Cloned), IdBytes(call.args[1]))
            /\ \A x \in Ids \ {Cloned} :
                  heap.ids[x].bytes # heap.ids[Cloned].bytes)
    /\ [][\A c \in Ids :
            hist[c].made = "clone" =>
                /\ heap.ids[c].bytes # heap.ids[hist[c].of].bytes
                /\ Written(heap.ids[hist[c].of].bytes) =>
                      /\ IdBytes(c)' = IdBytes(c)
                      /\ IdBytes(hist[c].of)' # IdBytes(hist[c].of)
                /\ Written(heap.ids[c].bytes) =>
                      /\ IdBytes(hist[c].of)' = IdBytes(hist[c].of)
                      /\ IdBytes(c)' # IdBytes(c)]_vars

\* an object made by ofInner was cloned and the caller then wrote to the
\* array it had given to ofInner: the clone still holds the value 1
C34_Witness ==
    \E c \in Ids :
        /\ hist[c].made = "clone"
        /\ hist[hist[c].of].made = "ofInner"
        /\ call.op = "write"
        /\ call.args[1] = heap.ids[hist[c].of].bytes
        /\ IdBytes(c) = <<0, 0, 0, 0, 0, 0, 0, 1>>
        /\ IdBytes(hist[c].of) = <<255, 0, 0, 0, 0, 0, 0, 1>>

\* the caller wrote to the array of a clone, the object cloned keeping its
\* value
C34_CloneWritten ==
    \E c \in Ids :
        /\ hist[c].made = "clone"
        /\ call.op = "write"
        /\ call.args[1] = heap.ids[c].bytes
        /\ IdBytes(c) = <<255, 0, 0, 0, 0, 0, 0, 1>>
        /\ IdBytes(hist[c].of) = <<0, 0, 0, 0, 0, 0, 0, 1>>

\* the latest call was generateOrAbortCore, with valid arguments, and found
\* prevTimestamp at most t + a + 1
BurstCall ==
    /\ call.op = "generateOrAbortCore"
    /\ ValidCall
    /\ WLeq(call.pre.prevTimestamp, WInc(CallLimit))

\* C35 as stated: when generateOrAbortCore is called again and again with
\* the same timestamp t and allowance a, prevTimestamp never exceeds
\* t + a + 1, an ID is returned by every call that finds
\* prevTimestamp <= t + a, and every call that finds it above t + a returns
\* undefined
C35_Original ==
    BurstCall =>
        /\ WLeq(gen[1].prevTimestamp, WInc(CallLimit))
        /\ WLeq(call.pre.prevTimestamp, CallLimit) => result.kind = "id"
        /\ WLess(CallLimit, call.pre.prevTimestamp) =>
              result = Undefined /\ gen[1] = call.pre

\* C35: the same, except that a call that finds prevTimestamp <= t + a
\* throws a RangeError instead of returning an ID when the timestamp of that
\* ID would exceed MAX_TIMESTAMP: prevTimestamp is above it, or equals it
\* with the counter all ones
C35_BurstUntilAllowance ==
    BurstCall =>
        /\ WLeq(gen[1].prevTimestamp, WInc(CallLimit))
        /\ WLeq(call.pre.prevTimestamp, CallLimit) =>
              IF \/ WLess(MAX_TIMESTAMP, call.pre.prevTimestamp)
                 \/ /\ call.pre.prevTimestamp = MAX_TIMESTAMP
                    /\ PreCounter = counterMask(call.pre)
              THEN result = Thrown("RangeError")
              ELSE result.kind = "id"
        /\ WLess(CallLimit, call.pre.prevTimestamp) =>
              result = Undefined /\ gen[1] = call.pre

\* a fresh generator had returned IDs until a counter overflow pushed
\* prevTimestamp to t + a + 1, and the next call returned undefined
C35_Witness ==
    /\ BurstCall
    /\ hist[1].nodePrev.kind # "id"
    /\ call.preHist.count = 2
    /\ call.pre.prevTimestamp = WInc(CallLimit)
    /\ timestamp(call.preHist.lastId.bytes) = WInc(CallLimit)
    /\ result = Undefined

\* the burst ended with a RangeError at the last timestamp
C35_EndOfRange ==
    /\ BurstCall
    /\ call.pre.prevTimestamp = MAX_TIMESTAMP
    /\ CallTs.mag = MAX_TIMESTAMP
    /\ result = Thrown("RangeError")

\* 2^53 as a wide natural: up to it every integer is a double
TwoTo53 == <<32, 0, 0, 0, 0, 0, 0>>

RECURSIVE Horner36(_)
\* the number 12 digit values stand for in base 36, by multiplication of
\* the whole number
Horner36(src) ==
    IF src = <<>> THEN <<>>
    ELSE WNorm(WMulCarry(Horner36(SubSeq(src, 1, Len(src) - 1)), 36,
                         src[Len(src)]))

\* the digit values of a string
DigitValues(value) == [i \in 1..Len(value) |-> DECODE_MAP(value[i])]

\* C36: in toString (40-bit words) and in fromDigitValues (8-digit words)
\* every value the carry takes stays below 2^53, for every valid ID and for
\* every 12 valid digits, and the result is that of exact integer
\* arithmetic
C36_CarriesExact ==
    /\ ToStringCall =>
          /\ \A c \in toStringCarries(call.args[1]) :
                c # NaN /\ WLess(c.mag, TwoTo53)
          /\ result.text = Base36(WNorm(call.args[1]), 12)
    /\ FromStringCall /\ result.kind = "id" =>
          /\ \A c \in fromDigitValuesCarries(DigitValues(call.args[1])) :
                WLess(c, TwoTo53)
          /\ result.bytes = BigEndian(Horner36(DigitValues(call.args[1])))

\* toString() met the greatest carry there is, 36 * 2^40 - 1
C36_Witness ==
    /\ ToStringCall
    /\ Num(FALSE, <<35, 255, 255, 255, 255, 255>>)
          \in toStringCarries(call.args[1])

\* fromString met the greatest carry there is, 256 * 36^8 - 1
C36_GreatestStored ==
    /\ FromStringCall
    /\ result.kind = "id"
    /\ WAdd(WMulSmall(POW36_8, 255), <<2, 144, 215, 64, 255, 255>>)
          \in fromDigitValuesCarries(DigitValues(call.args[1]))

\* C37 as stated: after any sequence of generation calls, those that throw
\* included, prevTimestamp is an integer in [0, MAX_TIMESTAMP], prevNodeCtr
\* is an integer in [0, 2^24 - 1], and a call that throws leaves both as
\* they were before the call.
C37_StateWellFormed ==
    /\ WLeq(gen[1].prevTimestamp, MAX_TIMESTAMP)
    /\ gen[1].prevNodeCtr \in 0..MAX_NODE_CTR
    /\ (CoreCall /\ result.kind \in {"Error", "RangeError"}) =>
          /\ gen[1].prevTimestamp = call.pre.prevTimestamp
          /\ gen[1].prevNodeCtr = call.pre.prevNodeCtr

\* the latest call was new Scru64Generator(g.getNodeSpec())
RebuildCall == call.op = "new" /\ call.g = 2

\* the latest call was a Core call on both generators
BothCall == CoreCall /\ call.g = 2 /\ Len(gen) = 2

\* what a Core method may hand back
Results(op, this, unixTsMs, rollbackAllowance) ==
    { o.result : o \in Core(op, this, unixTsMs, rollbackAllowance) }

CoreMethods == {"generateOrAbortCore", "generateOrResetCore"}

\* the two generators have the same aborts, errors and IDs to hand back to
\* the next Core call, whatever it is
SameResults(a, b) ==
    \A op \in CoreMethods, in \in RebuildInputs :
       Results(op, a, in[1], in[2]) = Results(op, b, in[1], in[2])

\* the generator has the counter mode of a constructor call without one
HasDefaultCounterMode(this) ==
    this.counterMode
       = DefaultCounterMode(IF this.counterSize <= 4 THEN 1 ELSE 0)

\* the two generators hold the same fields, but for the counter bits while
\* prevTimestamp is 0 (no call reads them before it renews the counter)
Alike(a, b) ==
    /\ a.counterSize = b.counterSize
    /\ a.counterMode = b.counterMode
    /\ a.prevTimestamp = b.prevTimestamp
    /\ IF a.prevTimestamp = <<>> THEN getNodeId(a) = getNodeId(b)
       ELSE a.prevNodeCtr = b.prevNodeCtr

\* whatever the call does on generator a it may do on generator b, handing
\* back the same and leaving the two alike
Simulates(op, a, b, unixTsMs, rollbackAllowance) ==
    \A o1 \in Core(op, a, unixTsMs, rollbackAllowance) :
       \E o2 \in Core(op, b, unixTsMs, rollbackAllowance) :
          o2.result = o1.result /\ Alike(o1.gen, o2.gen)

\* C38 as stated: for g in any reachable state,
\* new Scru64Generator(g.getNodeSpec()) has the nodeId and nodeIdSize of g,
\* the two have the same aborts and IDs to hand back from the same set of
\* possible values, and every ID the rebuilt generator returns without a
\* reset is greater than every ID g had returned.
C38_Original ==
    /\ RebuildCall =>
          /\ result = Constructed
          /\ getNodeId(gen[2]) = getNodeId(gen[1])
          /\ getNodeIdSize(gen[2]) = getNodeIdSize(gen[1])
          /\ SameResults(gen[1], gen[2])
    /\ (BothCall /\ result.kind = "id" /\ ~hist[2].everReset
           /\ hist[1].sample.kind = "id") =>
          compareTo(result.bytes, hist[1].sample.bytes) > 0

\* C38 amended: g.getNodeSpec() throws RangeError when a throwing call has
\* left prevTimestamp above MAX_TIMESTAMP; when it returns,
\* new Scru64Generator(g.getNodeSpec()) has the nodeId and nodeIdSize of g;
\* if g has the default counter mode the two are alike, and of two alike
\* generators every Core call hands back the same aborts and IDs from the
\* same set of possible values and leaves them alike when they drew the
\* same; and every ID the rebuilt generator returns without a reset is
\* greater than every ID g had returned since its last reset.
C38_RebuiltBehavesAlike ==
    /\ RebuildCall =>
          IF WLess(MAX_TIMESTAMP, call.pre.prevTimestamp)
          THEN result = Thrown("RangeError") /\ Len(gen) = 1
          ELSE /\ result = Constructed
               /\ getNodeId(gen[2]) = getNodeId(gen[1])
               /\ getNodeIdSize(gen[2]) = getNodeIdSize(gen[1])
               /\ HasDefaultCounterMode(gen[1]) =>
                     /\ Alike(gen[1], gen[2])
                     /\ SameResults(gen[1], gen[2])
    /\ (BothCall /\ Alike(call.args[1], call.pre)) =>
          /\ Simulates(call.op, call.args[1], call.pre,
                       call.unixTsMs, call.rollbackAllowance)
          /\ Simulates(call.op, call.pre, call.args[1],
                       call.unixTsMs, call.rollbackAllowance)
    /\ (BothCall /\ result.kind = "id" /\ ~hist[2].everReset
           /\ hist[1].sinceReset.kind = "id") =>
          compareTo(result.bytes, hist[1].sinceReset.bytes) > 0

\* C38 happens: g had returned an ID, was rebuilt from its nodePrev string,
\* and a call on the two, alike, renewed the counter with more than one
\* value possible and returned an ID on both, the two having drawn
\* different counters
C38_Witness ==
    /\ BothCall
    /\ Alike(call.args[1], call.pre)
    /\ gen[1] # gen[2]
    /\ gen[1].prevTimestamp = gen[2].prevTimestamp
    /\ hist[1].sinceReset.kind = "id"
    /\ WLess(call.pre.prevTimestamp, CallTs.mag)
    /\ Cardinality(Results(call.op, call.pre, call.unixTsMs,
                           call.rollbackAllowance)) > 1
    /\ result.kind = "id"

\* C38 happens: g, built from a nodePrev of timestamp 0, is rebuilt from
\* "233280/22" with other counter bits stored, and the two, alike, are
\* called
C38_FromDecimal ==
    /\ BothCall
    /\ Alike(call.args[1], call.pre)
    /\ call.args[1].prevTimestamp = <<>>
    /\ call.args[1].prevNodeCtr # call.pre.prevNodeCtr
    /\ result.kind = "id"

\* C38 happens: getNodeSpec() throws on a generator left beyond
\* MAX_TIMESTAMP by a throwing call
C38_GetNodeSpecThrows ==
    /\ RebuildCall
    /\ result = Thrown("RangeError")

\* the latest step was a turn of a task in generateOrAwait() or
\* scru64String()
TaskCall == call.op \in AsyncMethods

\* the task that took the latest turn, and the tasks suspended before it
TurnOf == call.args[1]

SuspendedBefore == call.args[2]

\* the ID the latest turn handed back, read from the string in the case of
\* scru64String()
HandedId == IF IsString(result) THEN fromString(result.text) ELSE result

\* C39: when several generateOrAwait() or scru64String() calls on one
\* generator are suspended at once and take their turns in any order, every
\* turn is one whole generate(): the ID a turn hands back is greater than
\* every ID handed back before it, by whichever task, so all IDs are
\* pairwise distinct and increase in the order of success; a turn changes
\* no other task, and a task that suspends leaves the generator as it was,
\* free for the others.
C39_TasksInterleave ==
    TaskCall =>
       /\ \E o \in generate(call.pre, call.unixTsMs) :
             /\ gen[1] = o.gen
             /\ result = IF o.result = Undefined THEN Pending
                         ELSE IF call.op = "scru64String"
                         THEN StringOf(o.result) ELSE o.result
       /\ HandedId.kind = "id" =>
             /\ Greater(HandedId, call.preHist.maxId)
             /\ Greater(HandedId, call.preHist.lastId)
             /\ pending[TurnOf] = "none"
       /\ \A u \in Tasks \ {TurnOf} : pending[u] = SuspendedBefore[u]
       /\ result = Pending =>
             /\ gen[1] = call.pre
             /\ pending[TurnOf] = call.op
             /\ spin = 0

\* C39 happens: while a task is suspended in generateOrAwait(), a turn of
\* another task in scru64String() hands back an ID after earlier ones
C39_Witness ==
    /\ TaskCall
    /\ call.op = "scru64String"
    /\ HandedId.kind = "id"
    /\ call.preHist.lastId.kind = "id"
    /\ \E u \in Tasks \ {TurnOf} : pending[u] = "generateOrAwait"

\* C39 happens: two tasks are suspended at once, and one of them resumes
\* and hands back an ID while the other still waits
C39_ResumedOutOfOrder ==
    /\ TaskCall
    /\ SuspendedBefore[TurnOf] # "none"
    /\ HandedId.kind = "id"
    /\ \E u \in Tasks \ {TurnOf} : pending[u] # "none"

\* C39 happens: a turn throws the RangeError of the end of the timestamp
\* range while another task is suspended
C39_TaskThrows ==
    /\ TaskCall
    /\ result = Thrown("RangeError")
    /\ \E u \in Tasks \ {TurnOf} : pending[u] # "none"

====
